---- MODULE Spec2Model ----
(***************************************************************************)
(* The authority arbitration engine of the subsea autonomy stack           *)
(* (src/authority_rules.py): PhaseRiskClassifier and AuthorityRuleEngine.  *)
(*                                                                         *)
(* Representation.                                                         *)
(*   - ControlMode and ActionType members are strings: a ControlMode is    *)
(*     its .name ("AUTONOMOUS"), an ActionType is its .value ("ask").      *)
(*   - PhaseRiskLevel members are their integer .value (0..4).             *)
(*   - Reliabilities and confidence are whole percents: 0.55 is 55.        *)
(*   - Times are counted in ticks, Resolution ticks to the second.         *)
(*   - Python's None for an Optional value is the empty sequence <<>>,     *)
(*     a present value v is <<v>>.                                         *)
(*   - Texts are ASCII strings; the decorative symbols the source puts in  *)
(*     front of some messages are left out.                                *)
(***************************************************************************)
EXTENDS Integers, Sequences, FiniteSets, TLC

VARIABLES
    rule_engine,             \* the AuthorityRuleEngine object (self)
    current_mode,            \* argument of evaluate_mode_change
    bn_recommendation,       \* argument: a ModeRecommendation
    mission_phase,           \* argument
    task_criticality,        \* argument
    time_since_last_change,  \* argument, in ticks
    operator_override,       \* argument: <<>> (None) or <<mode>>
    risk_level,              \* local risk_level of the call: <<>> before it
    decision,                \* what evaluate_mode_change returned: <<>> before
    autonomous_allowed,      \* what is_autonomous_allowed returned: <<>> before
    calls,                   \* the calls of evaluate_mode_change made so far,
                             \* each with its arguments and its decision
    node,                    \* the ModeArbitratorNode: a record of its fields
    timers                   \* the node's timers: ticks until each is due

vars == <<rule_engine, current_mode, bn_recommendation, mission_phase,
          task_criticality, time_since_last_change, operator_override,
          risk_level, decision, autonomous_allowed, calls, node, timers>>

(***************************************************************************)
(* Bounds of the model                                                     *)
(***************************************************************************)
\* ticks per second: elapsed times are multiples of 1/Resolution s
Resolution == 2
\* the longest elapsed time tried, in seconds
MaxElapsed == 300
\* the longest sequence of calls made on one engine
MaxCalls == 3
\* the time that passes in one step of the node's clock, in seconds
TimeStep == 60

(***************************************************************************)
(* Enumerations                                                            *)
(***************************************************************************)
SAFE == 0
LOW == 1
MEDIUM == 2
HIGH == 3
CRITICAL == 4

PhaseRiskLevel == {SAFE, LOW, MEDIUM, HIGH, CRITICAL}

\* PhaseRiskLevel(v).name
RiskName(r) ==
    CASE r = SAFE -> "SAFE"
      [] r = LOW -> "LOW"
      [] r = MEDIUM -> "MEDIUM"
      [] r = HIGH -> "HIGH"
      [] r = CRITICAL -> "CRITICAL"

AUTONOMOUS == "AUTONOMOUS"
HUMAN == "HUMAN"
SHARED == "SHARED"

ControlMode == {AUTONOMOUS, HUMAN, SHARED}

AUTO_SWITCH == "auto_switch"
ASK == "ask"
SUGGEST == "suggest"
NOTIFY == "notify"
BLOCK == "block"
NONE == "none"

ActionType == {AUTO_SWITCH, ASK, SUGGEST, NOTIFY, BLOCK, NONE}

\* Optional values
None == <<>>
Some(v) == <<v>>
IsNone(o) == o = <<>>
Val(o) == o[1]

\* dict.get(key, default) on a dict held as a function
DictGet(d, key, default) == IF key \in DOMAIN d THEN d[key] ELSE default

\* Python's `sub in s` on strings
Contains(s, sub) ==
    \E i \in 1..(Len(s) - Len(sub) + 1) : SubSeq(s, i, i + Len(sub) - 1) = sub

\* f"{x:.0%}" of a whole-percent value
FormatPercent(p) == ToString(p) \o "%"

\* f"{x:.2f}" of a whole-percent value
FormatFixed2(p) ==
    ToString(p \div 100) \o "." \o ToString((p % 100) \div 10) \o ToString(p % 10)

\* int(t) of a time in ticks, as a numeral of seconds
FormatIntSeconds(t) == ToString(t \div Resolution)

\* a float of seconds in ticks
Seconds(s) == s * Resolution

(***************************************************************************)
(* Data classes                                                            *)
(***************************************************************************)
ModeRecommendation(rm, c, hr, ar, dr) ==
    [recommended_mode |-> rm, confidence |-> c, human_reliability |-> hr,
     autonomous_reliability |-> ar, docking_reliability |-> dr]

AuthorityDecision(at, tm, msg, expl, urg, ad, to, rs) ==
    [action_type |-> at, target_mode |-> tm, message |-> msg,
     explanation |-> expl, urgency |-> urg, allow_decline |-> ad,
     timeout_seconds |-> to, reasons |-> rs]

(***************************************************************************)
(* PhaseRiskClassifier                                                     *)
(***************************************************************************)
PHASE_RISK_MAP ==
    [p \in {"Docking", "DockingApproach", "Undocking", "Inspection",
            "Transit", "Charging"} |->
        CASE p = "Docking" -> CRITICAL
          [] p = "DockingApproach" -> CRITICAL
          [] p = "Undocking" -> HIGH
          [] p = "Inspection" -> MEDIUM
          [] p = "Transit" -> LOW
          [] p = "Charging" -> SAFE]

CRITICALITY_MODIFIER ==
    [c \in {"Routine", "Important", "Critical"} |->
        CASE c = "Routine" -> 0
          [] c = "Important" -> 1
          [] c = "Critical" -> 2]

Min(a, b) == IF a <= b THEN a ELSE b

Max(a, b) == IF a >= b THEN a ELSE b

\* a plausible slip: max is written for min
get_risk_level_max(phase, criticality) ==
    Max(DictGet(PHASE_RISK_MAP, phase, MEDIUM)
            + DictGet(CRITICALITY_MODIFIER, criticality, 0),
        CRITICAL)

\* a plausible slip: a phase missing from the table is taken for LOW
get_risk_level_unknown_low(phase, criticality) ==
    Min(DictGet(PHASE_RISK_MAP, phase, LOW)
            + DictGet(CRITICALITY_MODIFIER, criticality, 0),
        CRITICAL)

get_risk_level(phase, criticality) ==
    LET base_risk == DictGet(PHASE_RISK_MAP, phase, MEDIUM)
        modifier == DictGet(CRITICALITY_MODIFIER, criticality, 0)
        effective_risk_value == Min(base_risk + modifier, CRITICAL)
    IN  effective_risk_value

\* a plausible slip: the gate is left open
is_autonomous_allowed_always(phase, criticality) == TRUE

\* a plausible slip: the criticality is not passed on
is_autonomous_allowed_default_criticality(phase, criticality) ==
    get_risk_level(phase, "Routine") /= CRITICAL

is_autonomous_allowed(phase, criticality) ==
    get_risk_level(phase, criticality) /= CRITICAL

(***************************************************************************)
(* AuthorityRuleEngine: construction and the explanation helpers           *)
(***************************************************************************)
\* __init__: the fields of a fresh engine
NewAuthorityRuleEngine ==
    [mode_change_history |-> <<>>,
     last_mode_change_time |-> None,
     minimum_mode_duration |-> Seconds(120),
     CRITICAL_LOW_THRESHOLD |-> 50,
     LOW_THRESHOLD |-> 60,
     HIGH_THRESHOLD |-> 80]

\* repr() of a list of strings, as an f-string renders it
RECURSIVE ReprItems(_)
ReprItems(l) ==
    IF Len(l) = 0 THEN ""
    ELSE IF Len(l) = 1 THEN "'" \o l[1] \o "'"
    ELSE "'" \o l[1] \o "', " \o ReprItems(Tail(l))

ReprList(l) == "[" \o ReprItems(l) \o "]"

\* "".join(parts)
RECURSIVE Join(_)
Join(parts) == IF Len(parts) = 0 THEN "" ELSE parts[1] \o Join(Tail(parts))

_diagnose_autonomous_degradation(self, bn_rec) ==
    LET f1 == IF bn_rec.autonomous_reliability < 60
              THEN <<"Navigation accuracy reduced (possible USBL degradation)",
                     "Environmental conditions affecting stability">>
              ELSE <<>>
        f2 == IF ~IsNone(bn_rec.docking_reliability)
                 /\ Val(bn_rec.docking_reliability) < 70
              THEN f1 \o <<"Docking conditions suboptimal (reliability: "
                           \o FormatPercent(Val(bn_rec.docking_reliability))
                           \o ")">>
              ELSE f1
    IN  IF Len(f2) = 0
        THEN <<"Minor performance degradation detected">>
        ELSE f2

\* a plausible slip: the boundary of Good is exclusive (> written for >=)
_reliability_label_good_exclusive(self, reliability) ==
    IF reliability >= self.HIGH_THRESHOLD THEN "Excellent"
    ELSE IF reliability > 70 THEN "Good"
    ELSE IF reliability >= self.LOW_THRESHOLD THEN "Fair"
    ELSE IF reliability >= self.CRITICAL_LOW_THRESHOLD THEN "Low"
    ELSE "Critical"

_reliability_label(self, reliability) ==
    IF reliability >= self.HIGH_THRESHOLD THEN "Excellent"
    ELSE IF reliability >= 70 THEN "Good"
    ELSE IF reliability >= self.LOW_THRESHOLD THEN "Fair"
    ELSE IF reliability >= self.CRITICAL_LOW_THRESHOLD THEN "Low"
    ELSE "Critical"

\* the bullets of a list of factors
FactorBullets(factors) ==
    [i \in 1..Len(factors) |-> "\n  * " \o factors[i]]

_generate_explanation(self, scenario, phase, bn_rec, summary) ==
    LET head ==
            <<summary \o ".",
              "\n\nPerformance Assessment:",
              "\n  * Your reliability: "
                  \o FormatPercent(bn_rec.human_reliability) \o " ("
                  \o _reliability_label(self, bn_rec.human_reliability) \o ")",
              "\n  * System reliability: "
                  \o FormatPercent(bn_rec.autonomous_reliability) \o " ("
                  \o _reliability_label(self, bn_rec.autonomous_reliability) \o ")">>
        docking ==
            IF ~IsNone(bn_rec.docking_reliability)
            THEN <<"\n  * Docking reliability: "
                   \o FormatPercent(Val(bn_rec.docking_reliability))>>
            ELSE <<>>
        factors == _diagnose_autonomous_degradation(self, bn_rec)
        specific ==
            IF Contains(scenario, "auto_to_human")
            THEN IF Len(factors) > 0
                 THEN <<"\n\nAutonomous System Status:">> \o FactorBullets(factors)
                 ELSE <<>>
            ELSE IF Contains(scenario, "human")
                    /\ bn_rec.human_reliability < self.LOW_THRESHOLD
            THEN <<"\n\nYour Current State:">> \o
                 (IF bn_rec.human_reliability < self.CRITICAL_LOW_THRESHOLD
                  THEN <<"\n  * Fatigue level is critically high",
                         "\n  * Attention capacity is significantly reduced",
                         "\n  * Cognitive workload may be elevated">>
                  ELSE <<"\n  * Fatigue is accumulating",
                         "\n  * Consider using automation to reduce workload">>)
            ELSE <<>>
        context == <<"\n\nMission Context: " \o phase \o " phase">>
        confidence_desc ==
            IF bn_rec.confidence > 80 THEN "very confident"
            ELSE IF bn_rec.confidence > 60 THEN "confident"
            ELSE "moderately confident"
        conf == <<"\n\nSystem is " \o confidence_desc
                  \o " in this recommendation ("
                  \o FormatPercent(bn_rec.confidence) \o ").">>
    IN  Join(head \o docking \o specific \o context \o conf)

(***************************************************************************)
(* AuthorityRuleEngine: tier 1, the operator override                      *)
(***************************************************************************)
\* the decision that lets an override through
OverrideAccepted(requested_mode, risk, phase, urgency) ==
    LET warning == IF risk >= HIGH
                   THEN " Warning: " \o phase \o " is a high-risk phase."
                   ELSE ""
    IN  AuthorityDecision(
            AUTO_SWITCH,
            requested_mode,
            "Operator override accepted: " \o requested_mode \o warning,
            "You have manually selected " \o requested_mode \o " mode. "
                \o "The system will respect your decision." \o warning,
            urgency,
            FALSE,
            None,
            [operator_override |-> TRUE, risk_level |-> RiskName(risk),
             phase |-> phase])

\* the decision that blocks an override
OverrideBlocked(current, risk, phase) ==
    AuthorityDecision(
        BLOCK,
        current,
        "Autonomous mode not allowed during " \o phase,
        "Safety rules prohibit autonomous operation during " \o phase
            \o " phase. This is a critical phase requiring human judgment. "
            \o "Shared control is available if you need assistance.",
        "high",
        FALSE,
        None,
        [blocked |-> TRUE, reason |-> "phase_safety_rule", phase |-> phase,
         risk_level |-> RiskName(risk),
         alternative |-> "Shared control available"])

urgency_map ==
    [r \in PhaseRiskLevel |->
        CASE r = SAFE -> "low"
          [] r = LOW -> "low"
          [] r = MEDIUM -> "medium"
          [] r = HIGH -> "high"
          [] r = CRITICAL -> "critical"]

\* a plausible slip: the override is announced with a fixed urgency
_handle_operator_override_fixed_urgency(self, requested_mode, current, risk, phase) ==
    IF requested_mode = AUTONOMOUS /\ ~is_autonomous_allowed(phase, "Routine")
    THEN OverrideBlocked(current, risk, phase)
    ELSE OverrideAccepted(requested_mode, risk, phase, "high")

\* is_autonomous_allowed is called with the phase alone, so its
\* task_criticality parameter takes its default, "Routine"
_handle_operator_override(self, requested_mode, current, risk, phase) ==
    IF requested_mode = AUTONOMOUS /\ ~is_autonomous_allowed(phase, "Routine")
    THEN OverrideBlocked(current, risk, phase)
    ELSE OverrideAccepted(requested_mode, risk, phase, urgency_map[risk])

(***************************************************************************)
(* AuthorityRuleEngine: tier 2, the hard safety rules                      *)
(***************************************************************************)
\* SAFETY RULE 1
SafetyAlert(self, current, phase, bn_rec) ==
    AuthorityDecision(
        NOTIFY,
        current,
        "SAFETY ALERT: Critical fatigue during " \o phase,
        "Your reliability is critically low ("
            \o FormatFixed2(bn_rec.human_reliability) \o ") during " \o phase
            \o " phase. Consider aborting operation and returning to safe zone. "
            \o "Autonomous mode is not allowed during this critical phase. "
            \o "Shared control can provide assistance.",
        "critical",
        FALSE,
        None,
        [safety_alert |-> TRUE,
         human_reliability |-> bn_rec.human_reliability,
         threshold |-> self.CRITICAL_LOW_THRESHOLD,
         phase |-> phase,
         recommendation |-> "abort_and_rest"])

\* SAFETY RULE 2
DegradedSwitch(self, bn_rec) ==
    AuthorityDecision(
        AUTO_SWITCH,
        HUMAN,
        "Autonomous performance degraded - Switching to Human",
        "Autonomous control reliability has dropped to "
            \o FormatFixed2(bn_rec.autonomous_reliability) \o ". Reasons: "
            \o ReprList(_diagnose_autonomous_degradation(self, bn_rec))
            \o ". Human control required for safety.",
        "high",
        FALSE,
        None,
        [auto_switch_to_human |-> TRUE,
         auto_reliability |-> bn_rec.autonomous_reliability,
         threshold |-> self.LOW_THRESHOLD,
         diagnosis |-> _diagnose_autonomous_degradation(self, bn_rec)])

\* a plausible slip: rule 1 is tied to the HIGH level
_apply_safety_rules_rule1_high(self, current, recommended, risk, phase, bn_rec) ==
    IF /\ risk = HIGH
       /\ current = HUMAN
       /\ bn_rec.human_reliability < self.CRITICAL_LOW_THRESHOLD
    THEN Some(SafetyAlert(self, current, phase, bn_rec))
    ELSE IF /\ current = AUTONOMOUS
            /\ recommended = HUMAN
            /\ bn_rec.autonomous_reliability < self.LOW_THRESHOLD
    THEN Some(DegradedSwitch(self, bn_rec))
    ELSE None

\* a plausible slip: rule 2 compares with the critical-low threshold
_apply_safety_rules_rule2_critical_low(self, current, recommended, risk, phase, bn_rec) ==
    IF /\ risk = CRITICAL
       /\ current = HUMAN
       /\ bn_rec.human_reliability < self.CRITICAL_LOW_THRESHOLD
    THEN Some(SafetyAlert(self, current, phase, bn_rec))
    ELSE IF /\ current = AUTONOMOUS
            /\ recommended = HUMAN
            /\ bn_rec.autonomous_reliability < self.CRITICAL_LOW_THRESHOLD
    THEN Some(DegradedSwitch(self, bn_rec))
    ELSE None

\* a plausible slip: Rule 1 does not test who is in control
_apply_safety_rules_rule1_any_mode(self, current, recommended, risk, phase, bn_rec) ==
    IF /\ risk = CRITICAL
       /\ bn_rec.human_reliability < self.CRITICAL_LOW_THRESHOLD
    THEN Some(SafetyAlert(self, current, phase, bn_rec))
    ELSE IF /\ current = AUTONOMOUS
            /\ recommended = HUMAN
            /\ bn_rec.autonomous_reliability < self.LOW_THRESHOLD
    THEN Some(DegradedSwitch(self, bn_rec))
    ELSE None

\* returns None or Some(decision)
_apply_safety_rules(self, current, recommended, risk, phase, bn_rec) ==
    IF /\ risk = CRITICAL
       /\ current = HUMAN
       /\ bn_rec.human_reliability < self.CRITICAL_LOW_THRESHOLD
    THEN Some(SafetyAlert(self, current, phase, bn_rec))
    ELSE IF /\ current = AUTONOMOUS
            /\ recommended = HUMAN
            /\ bn_rec.autonomous_reliability < self.LOW_THRESHOLD
    THEN Some(DegradedSwitch(self, bn_rec))
    ELSE None

(***************************************************************************)
(* AuthorityRuleEngine: tier 4, the phase handlers                         *)
(***************************************************************************)
\* Human -> Autonomous in a critical phase: blocked
CriticalBlock(current, phase) ==
    AuthorityDecision(
        BLOCK,
        current,
        "Autonomous mode blocked during " \o phase,
        "Autonomous operation is not permitted during " \o phase \o ". "
            \o "This critical phase requires human judgment and decision-making. "
            \o "Shared control is available if you need assistance with "
            \o "positioning or stabilization.",
        "high",
        FALSE,
        None,
        [blocked |-> TRUE, reason |-> "critical_phase_safety", phase |-> phase])

\* Autonomous -> Human in a critical phase
CriticalToHuman(self, phase, bn_rec) ==
    AuthorityDecision(
        AUTO_SWITCH,
        HUMAN,
        "Critical Phase - Switching to Human Control",
        _generate_explanation(self, "auto_to_human_critical", phase, bn_rec,
            "Autonomous system detected conditions requiring human judgment"),
        "critical",
        FALSE,
        None,
        [phase |-> phase, transition |-> "auto_to_human",
         auto_reliability |-> bn_rec.autonomous_reliability,
         human_reliability |-> bn_rec.human_reliability])

\* Any -> Shared in a critical phase
CriticalToShared(self, current, phase, bn_rec) ==
    AuthorityDecision(
        ASK,
        SHARED,
        "Shared control recommended for " \o phase,
        _generate_explanation(self, "suggest_shared_critical", phase, bn_rec,
            "Shared control can assist during this critical phase"),
        "medium",
        TRUE,
        Some(30),
        [phase |-> phase, transition |-> current \o "_to_shared",
         benefits |-> "System can assist with stabilization while you focus on critical decisions"])

CriticalMaintain(current, phase) ==
    AuthorityDecision(
        NONE,
        current,
        "Maintaining " \o current \o " mode",
        "Current mode is appropriate for " \o phase \o ".",
        "low",
        FALSE,
        None,
        <<>>)

\* a plausible slip: Human -> Autonomous is asked for, as in a high-risk phase
_handle_critical_phase_ask_autonomous(self, current, recommended, phase, bn_rec) ==
    IF current = AUTONOMOUS /\ recommended = HUMAN
    THEN CriticalToHuman(self, phase, bn_rec)
    ELSE IF current = HUMAN /\ recommended = AUTONOMOUS
    THEN [CriticalBlock(current, phase) EXCEPT
              !.action_type = ASK, !.target_mode = AUTONOMOUS,
              !.allow_decline = TRUE, !.timeout_seconds = Some(45)]
    ELSE IF recommended = SHARED
    THEN CriticalToShared(self, current, phase, bn_rec)
    ELSE CriticalMaintain(current, phase)

\* a plausible slip: Shared is suggested, as in the phases below Critical
_handle_critical_phase_suggest_shared(self, current, recommended, phase, bn_rec) ==
    IF current = AUTONOMOUS /\ recommended = HUMAN
    THEN CriticalToHuman(self, phase, bn_rec)
    ELSE IF current = HUMAN /\ recommended = AUTONOMOUS
    THEN CriticalBlock(current, phase)
    ELSE IF recommended = SHARED
    THEN [CriticalToShared(self, current, phase, bn_rec) EXCEPT
              !.action_type = SUGGEST]
    ELSE CriticalMaintain(current, phase)

_handle_critical_phase(self, current, recommended, phase, bn_rec) ==
    IF current = AUTONOMOUS /\ recommended = HUMAN
    THEN CriticalToHuman(self, phase, bn_rec)
    ELSE IF current = HUMAN /\ recommended = AUTONOMOUS
    THEN CriticalBlock(current, phase)
    ELSE IF recommended = SHARED
    THEN CriticalToShared(self, current, phase, bn_rec)
    ELSE CriticalMaintain(current, phase)

\* a plausible slip: the fatigue test includes the threshold (<= for <)
_handle_high_risk_phase_fatigue_inclusive(self, current, recommended, phase, bn_rec) ==
    IF current = AUTONOMOUS /\ recommended = HUMAN
    THEN AuthorityDecision(
            AUTO_SWITCH,
            HUMAN,
            "High Risk Phase - Switching to Human Control",
            _generate_explanation(self, "auto_to_human_high", phase, bn_rec,
                "Autonomous reliability has decreased"),
            "high",
            FALSE,
            None,
            [phase |-> phase,
             auto_reliability |-> bn_rec.autonomous_reliability,
             human_reliability |-> bn_rec.human_reliability])
    ELSE IF current = HUMAN /\ recommended = AUTONOMOUS
    THEN LET fatigued == bn_rec.human_reliability <= self.LOW_THRESHOLD
             urgency == IF fatigued THEN "high" ELSE "medium"
             message_prefix == IF fatigued THEN "Your fatigue is high." ELSE ""
         IN  AuthorityDecision(
                ASK,
                AUTONOMOUS,
                message_prefix \o " Switch to Autonomous for " \o phase \o "?",
                _generate_explanation(self, "human_to_auto_high", phase, bn_rec,
                    message_prefix \o " Autonomous system can handle " \o phase),
                urgency,
                TRUE,
                Some(45),
                [phase |-> phase,
                 human_reliability |-> bn_rec.human_reliability,
                 auto_reliability |-> bn_rec.autonomous_reliability,
                 fatigue_warning |-> bn_rec.human_reliability <= self.LOW_THRESHOLD])
    ELSE IF recommended = SHARED
    THEN AuthorityDecision(
            SUGGEST,
            SHARED,
            "Shared control available for " \o phase,
            _generate_explanation(self, "suggest_shared", phase, bn_rec,
                "Shared control balances human oversight with system assistance"),
            "medium",
            TRUE,
            Some(30),
            [phase |-> phase])
    ELSE AuthorityDecision(NONE, current, "Mode stable", "", "low", FALSE, None, <<>>)

_handle_high_risk_phase(self, current, recommended, phase, bn_rec) ==
    IF current = AUTONOMOUS /\ recommended = HUMAN
    THEN AuthorityDecision(
            AUTO_SWITCH,
            HUMAN,
            "High Risk Phase - Switching to Human Control",
            _generate_explanation(self, "auto_to_human_high", phase, bn_rec,
                "Autonomous reliability has decreased"),
            "high",
            FALSE,
            None,
            [phase |-> phase,
             auto_reliability |-> bn_rec.autonomous_reliability,
             human_reliability |-> bn_rec.human_reliability])
    ELSE IF current = HUMAN /\ recommended = AUTONOMOUS
    THEN LET fatigued == bn_rec.human_reliability < self.LOW_THRESHOLD
             urgency == IF fatigued THEN "high" ELSE "medium"
             message_prefix == IF fatigued THEN "Your fatigue is high." ELSE ""
         IN  AuthorityDecision(
                ASK,
                AUTONOMOUS,
                message_prefix \o " Switch to Autonomous for " \o phase \o "?",
                _generate_explanation(self, "human_to_auto_high", phase, bn_rec,
                    message_prefix \o " Autonomous system can handle " \o phase),
                urgency,
                TRUE,
                Some(45),
                [phase |-> phase,
                 human_reliability |-> bn_rec.human_reliability,
                 auto_reliability |-> bn_rec.autonomous_reliability,
                 fatigue_warning |-> bn_rec.human_reliability < self.LOW_THRESHOLD])
    ELSE IF recommended = SHARED
    THEN AuthorityDecision(
            SUGGEST,
            SHARED,
            "Shared control available for " \o phase,
            _generate_explanation(self, "suggest_shared", phase, bn_rec,
                "Shared control balances human oversight with system assistance"),
            "medium",
            TRUE,
            Some(30),
            [phase |-> phase])
    ELSE AuthorityDecision(NONE, current, "Mode stable", "", "low", FALSE, None, <<>>)

\* a plausible slip: the Ask of the medium-risk handler has no timeout
_handle_medium_risk_phase_ask_without_timeout(self, current, recommended, phase, bn_rec) ==
    IF current = AUTONOMOUS /\ recommended = HUMAN
    THEN AuthorityDecision(
            ASK,
            HUMAN,
            "Autonomous performance degraded - Switch to manual?",
            _generate_explanation(self, "auto_degraded_medium", phase, bn_rec,
                "Autonomous performance has decreased but can continue")
                \o " Autonomous mode can continue if you prefer.",
            "medium",
            TRUE,
            None,
            [phase |-> phase,
             auto_reliability |-> bn_rec.autonomous_reliability,
             can_continue_auto |-> TRUE])
    ELSE IF current = HUMAN /\ recommended = AUTONOMOUS
    THEN AuthorityDecision(
            SUGGEST,
            AUTONOMOUS,
            "Autopilot available - Enable to conserve attention?",
            _generate_explanation(self, "offer_auto_assist", phase, bn_rec,
                "Autopilot can handle routine inspection tasks")
                \o " You can monitor without active control.",
            "low",
            TRUE,
            None,
            [phase |-> phase, benefit |-> "reduce_operator_workload",
             auto_reliability |-> bn_rec.autonomous_reliability])
    ELSE IF recommended = SHARED
    THEN AuthorityDecision(
            SUGGEST,
            SHARED,
            "Shared control recommended",
            _generate_explanation(self, "suggest_shared", phase, bn_rec,
                "Shared control optimizes human-system performance"),
            "low",
            TRUE,
            None,
            [phase |-> phase])
    ELSE AuthorityDecision(NONE, current, "", "", "low", FALSE, None, <<>>)

_handle_medium_risk_phase(self, current, recommended, phase, bn_rec) ==
    IF current = AUTONOMOUS /\ recommended = HUMAN
    THEN AuthorityDecision(
            ASK,
            HUMAN,
            "Autonomous performance degraded - Switch to manual?",
            _generate_explanation(self, "auto_degraded_medium", phase, bn_rec,
                "Autonomous performance has decreased but can continue")
                \o " Autonomous mode can continue if you prefer.",
            "medium",
            TRUE,
            Some(60),
            [phase |-> phase,
             auto_reliability |-> bn_rec.autonomous_reliability,
             can_continue_auto |-> TRUE])
    ELSE IF current = HUMAN /\ recommended = AUTONOMOUS
    THEN AuthorityDecision(
            SUGGEST,
            AUTONOMOUS,
            "Autopilot available - Enable to conserve attention?",
            _generate_explanation(self, "offer_auto_assist", phase, bn_rec,
                "Autopilot can handle routine inspection tasks")
                \o " You can monitor without active control.",
            "low",
            TRUE,
            None,
            [phase |-> phase, benefit |-> "reduce_operator_workload",
             auto_reliability |-> bn_rec.autonomous_reliability])
    ELSE IF recommended = SHARED
    THEN AuthorityDecision(
            SUGGEST,
            SHARED,
            "Shared control recommended",
            _generate_explanation(self, "suggest_shared", phase, bn_rec,
                "Shared control optimizes human-system performance"),
            "low",
            TRUE,
            None,
            [phase |-> phase])
    ELSE AuthorityDecision(NONE, current, "", "", "low", FALSE, None, <<>>)

\* a plausible slip: the fallback answers None whatever is recommended
_handle_low_risk_phase_fallback_none(self, current, recommended, phase, bn_rec) ==
    IF current = AUTONOMOUS /\ recommended = HUMAN
    THEN AuthorityDecision(
            NOTIFY,
            current,
            "Autonomous performance note - Available to take control",
            _generate_explanation(self, "auto_degraded_low", phase, bn_rec,
                "Autonomous performance decreased")
                \o " No immediate action required during transit.",
            "low",
            FALSE,
            None,
            [phase |-> phase,
             auto_reliability |-> bn_rec.autonomous_reliability,
             info_only |-> TRUE])
    ELSE IF current = HUMAN /\ recommended = AUTONOMOUS
    THEN AuthorityDecision(
            SUGGEST,
            AUTONOMOUS,
            "Autopilot available for transit - Rest and monitor?",
            _generate_explanation(self, "offer_auto_rest", phase, bn_rec,
                "Autopilot can handle transit to conserve your attention")
                \o " This allows you to conserve attention for more demanding phases ahead.",
            "low",
            TRUE,
            None,
            [phase |-> phase, benefit |-> "operator_rest",
             human_reliability |-> bn_rec.human_reliability])
    ELSE AuthorityDecision(
            NONE,
            recommended,
            "Consider " \o recommended \o " mode?",
            recommended \o " mode is available during low-risk " \o phase \o ".",
            "low",
            TRUE,
            None,
            [phase |-> phase])

_handle_low_risk_phase(self, current, recommended, phase, bn_rec) ==
    IF current = AUTONOMOUS /\ recommended = HUMAN
    THEN AuthorityDecision(
            NOTIFY,
            current,
            "Autonomous performance note - Available to take control",
            _generate_explanation(self, "auto_degraded_low", phase, bn_rec,
                "Autonomous performance decreased")
                \o " No immediate action required during transit.",
            "low",
            FALSE,
            None,
            [phase |-> phase,
             auto_reliability |-> bn_rec.autonomous_reliability,
             info_only |-> TRUE])
    ELSE IF current = HUMAN /\ recommended = AUTONOMOUS
    THEN AuthorityDecision(
            SUGGEST,
            AUTONOMOUS,
            "Autopilot available for transit - Rest and monitor?",
            _generate_explanation(self, "offer_auto_rest", phase, bn_rec,
                "Autopilot can handle transit to conserve your attention")
                \o " This allows you to conserve attention for more demanding phases ahead.",
            "low",
            TRUE,
            None,
            [phase |-> phase, benefit |-> "operator_rest",
             human_reliability |-> bn_rec.human_reliability])
    ELSE AuthorityDecision(
            IF recommended /= current THEN SUGGEST ELSE NONE,
            recommended,
            "Consider " \o recommended \o " mode?",
            recommended \o " mode is available during low-risk " \o phase \o ".",
            "low",
            TRUE,
            None,
            [phase |-> phase])

\* a plausible slip: only the operator hands over in a safe phase
_handle_safe_phase_human_only(self, current, recommended, phase, bn_rec) ==
    IF recommended = AUTONOMOUS /\ current = HUMAN
    THEN AuthorityDecision(
            AUTO_SWITCH,
            AUTONOMOUS,
            "Switching to Autonomous mode during " \o phase,
            "ROV is safely docked and charging. Autonomous mode will monitor systems. "
                \o "You can take control at any time if needed.",
            "low",
            FALSE,
            None,
            [phase |-> phase, safe_phase_auto |-> TRUE])
    ELSE AuthorityDecision(
            NONE,
            current,
            "System monitoring during charging",
            "",
            "low",
            FALSE,
            None,
            [phase |-> phase])

_handle_safe_phase(self, current, recommended, phase, bn_rec) ==
    IF recommended = AUTONOMOUS /\ current /= AUTONOMOUS
    THEN AuthorityDecision(
            AUTO_SWITCH,
            AUTONOMOUS,
            "Switching to Autonomous mode during " \o phase,
            "ROV is safely docked and charging. Autonomous mode will monitor systems. "
                \o "You can take control at any time if needed.",
            "low",
            FALSE,
            None,
            [phase |-> phase, safe_phase_auto |-> TRUE])
    ELSE AuthorityDecision(
            NONE,
            current,
            "System monitoring during charging",
            "",
            "low",
            FALSE,
            None,
            [phase |-> phase])

\* a plausible slip: the Safe level is handled with the Low one
_apply_phase_rules_safe_as_low(self, current, recommended, risk, phase, bn_rec) ==
    IF current = recommended
    THEN AuthorityDecision(
            NONE,
            current,
            "Mode stable: " \o current,
            "Current mode is optimal for " \o phase \o " phase.",
            "low",
            FALSE,
            None,
            [no_change_needed |-> TRUE])
    ELSE IF risk = CRITICAL
    THEN _handle_critical_phase(self, current, recommended, phase, bn_rec)
    ELSE IF risk = HIGH
    THEN _handle_high_risk_phase(self, current, recommended, phase, bn_rec)
    ELSE IF risk = MEDIUM
    THEN _handle_medium_risk_phase(self, current, recommended, phase, bn_rec)
    ELSE _handle_low_risk_phase(self, current, recommended, phase, bn_rec)

\* a plausible slip: the no-change test is left out
_apply_phase_rules_no_stable_check(self, current, recommended, risk, phase, bn_rec) ==
    IF risk = CRITICAL
    THEN _handle_critical_phase(self, current, recommended, phase, bn_rec)
    ELSE IF risk = HIGH
    THEN _handle_high_risk_phase(self, current, recommended, phase, bn_rec)
    ELSE IF risk = MEDIUM
    THEN _handle_medium_risk_phase(self, current, recommended, phase, bn_rec)
    ELSE IF risk = LOW
    THEN _handle_low_risk_phase(self, current, recommended, phase, bn_rec)
    ELSE _handle_safe_phase(self, current, recommended, phase, bn_rec)

\* a plausible slip: the dispatch has no branch for the Safe level and
\* falls off its end
_apply_phase_rules_safe_unhandled(self, current, recommended, risk, phase, bn_rec) ==
    IF current = recommended
    THEN AuthorityDecision(
            NONE,
            current,
            "Mode stable: " \o current,
            "Current mode is optimal for " \o phase \o " phase.",
            "low",
            FALSE,
            None,
            [no_change_needed |-> TRUE])
    ELSE IF risk = CRITICAL
    THEN _handle_critical_phase(self, current, recommended, phase, bn_rec)
    ELSE IF risk = HIGH
    THEN _handle_high_risk_phase(self, current, recommended, phase, bn_rec)
    ELSE IF risk = MEDIUM
    THEN _handle_medium_risk_phase(self, current, recommended, phase, bn_rec)
    ELSE IF risk = LOW
    THEN _handle_low_risk_phase(self, current, recommended, phase, bn_rec)
    ELSE None

_apply_phase_rules(self, current, recommended, risk, phase, bn_rec) ==
    IF current = recommended
    THEN AuthorityDecision(
            NONE,
            current,
            "Mode stable: " \o current,
            "Current mode is optimal for " \o phase \o " phase.",
            "low",
            FALSE,
            None,
            [no_change_needed |-> TRUE])
    ELSE IF risk = CRITICAL
    THEN _handle_critical_phase(self, current, recommended, phase, bn_rec)
    ELSE IF risk = HIGH
    THEN _handle_high_risk_phase(self, current, recommended, phase, bn_rec)
    ELSE IF risk = MEDIUM
    THEN _handle_medium_risk_phase(self, current, recommended, phase, bn_rec)
    ELSE IF risk = LOW
    THEN _handle_low_risk_phase(self, current, recommended, phase, bn_rec)
    ELSE _handle_safe_phase(self, current, recommended, phase, bn_rec)

(***************************************************************************)
(* AuthorityRuleEngine.evaluate_mode_change: the priority chain            *)
(***************************************************************************)
\* tier 3: the decision inside the minimum mode duration
HysteresisHold(self, current, elapsed) ==
    AuthorityDecision(
        NONE,
        current,
        "Mode stable for " \o FormatIntSeconds(elapsed) \o "s",
        "Minimum mode duration not reached to prevent rapid switching",
        "low",
        FALSE,
        None,
        [hysteresis |-> TRUE,
         time_remaining |-> self.minimum_mode_duration - elapsed])

\* a plausible slip: the window is closed at its end (<= written for <)
HysteresisThenPhaseRules_inclusive(self, current, bn_rec, phase, risk, elapsed) ==
    IF elapsed <= self.minimum_mode_duration
       /\ bn_rec.recommended_mode /= current
    THEN HysteresisHold(self, current, elapsed)
    ELSE _apply_phase_rules(self, current, bn_rec.recommended_mode, risk,
                            phase, bn_rec)

\* tiers 3 and 4
HysteresisThenPhaseRules(self, current, bn_rec, phase, risk, elapsed) ==
    IF elapsed < self.minimum_mode_duration
       /\ bn_rec.recommended_mode /= current
    THEN HysteresisHold(self, current, elapsed)
    ELSE _apply_phase_rules(self, current, bn_rec.recommended_mode, risk,
                            phase, bn_rec)

\* a plausible slip: the order the class docstring gives, hard safety rules
\* before the operator override
evaluate_mode_change_safety_first(self, current, bn_rec, phase, criticality, elapsed, override) ==
    LET risk == get_risk_level(phase, criticality)
        safety_decision ==
            _apply_safety_rules(self, current, bn_rec.recommended_mode, risk,
                                phase, bn_rec)
    IN  IF ~IsNone(safety_decision)
        THEN Val(safety_decision)
        ELSE IF ~IsNone(override)
        THEN _handle_operator_override(self, Val(override), current, risk, phase)
        ELSE HysteresisThenPhaseRules(self, current, bn_rec, phase, risk, elapsed)

\* a plausible slip: the minimum mode duration is checked before the hard
\* safety rules
evaluate_mode_change_hysteresis_first(self, current, bn_rec, phase, criticality, elapsed, override) ==
    LET risk == get_risk_level(phase, criticality)
        safety_decision ==
            _apply_safety_rules(self, current, bn_rec.recommended_mode, risk,
                                phase, bn_rec)
    IN  IF ~IsNone(override)
        THEN _handle_operator_override(self, Val(override), current, risk, phase)
        ELSE IF elapsed < self.minimum_mode_duration
                /\ bn_rec.recommended_mode /= current
        THEN HysteresisHold(self, current, elapsed)
        ELSE IF ~IsNone(safety_decision)
        THEN Val(safety_decision)
        ELSE _apply_phase_rules(self, current, bn_rec.recommended_mode, risk,
                                phase, bn_rec)

\* a plausible slip: the minimum mode duration is not checked at all
evaluate_mode_change_no_hysteresis(self, current, bn_rec, phase, criticality, elapsed, override) ==
    LET risk == get_risk_level(phase, criticality)
        safety_decision ==
            _apply_safety_rules(self, current, bn_rec.recommended_mode, risk,
                                phase, bn_rec)
    IN  IF ~IsNone(override)
        THEN _handle_operator_override(self, Val(override), current, risk, phase)
        ELSE IF ~IsNone(safety_decision)
        THEN Val(safety_decision)
        ELSE _apply_phase_rules(self, current, bn_rec.recommended_mode, risk,
                                phase, bn_rec)

evaluate_mode_change(self, current, bn_rec, phase, criticality, elapsed, override) ==
    LET recommended_mode == bn_rec.recommended_mode
        risk == get_risk_level(phase, criticality)
        safety_decision ==
            _apply_safety_rules(self, current, recommended_mode, risk, phase,
                                bn_rec)
    IN  IF ~IsNone(override)
        THEN _handle_operator_override(self, Val(override), current, risk, phase)
        ELSE IF ~IsNone(safety_decision)
        THEN Val(safety_decision)
        ELSE HysteresisThenPhaseRules(self, current, bn_rec, phase, risk, elapsed)

\* a plausible slip: the remaining time is taken off the engine's own
\* minimum_mode_duration (-= written for -) where the hysteresis holds
evaluate_mode_change_self_consumes_duration(self, current, bn_rec, phase, criticality, elapsed, override) ==
    IF /\ IsNone(override)
       /\ IsNone(_apply_safety_rules(self, current, bn_rec.recommended_mode,
                     get_risk_level(phase, criticality), phase, bn_rec))
       /\ elapsed < self.minimum_mode_duration
       /\ bn_rec.recommended_mode /= current
    THEN [self EXCEPT !.minimum_mode_duration = self.minimum_mode_duration - elapsed]
    ELSE self

\* a plausible slip: every decision that names another mode is recorded in
\* the engine's mode_change_history
evaluate_mode_change_self_records_history(self, current, bn_rec, phase, criticality, elapsed, override) ==
    LET d == evaluate_mode_change(self, current, bn_rec, phase, criticality,
                                  elapsed, override)
    IN  IF d.target_mode /= current
        THEN [self EXCEPT !.mode_change_history = Append(@, d.target_mode),
                          !.last_mode_change_time = Some(0)]
        ELSE self

\* the engine after the call: evaluate_mode_change and the methods it calls
\* assign no attribute of self
evaluate_mode_change_self(self, current, bn_rec, phase, criticality, elapsed, override) ==
    self

(***************************************************************************)
(* ModeArbitratorNode (src/mode_arbitrator.py): the fields and the methods *)
(*                                                                         *)
(* Representation.                                                         *)
(*   - The node is a record of its attributes; a method is an operator     *)
(*     from the node (self) to the node it leaves behind. The executor     *)
(*     runs one callback at a time.                                        *)
(*   - Clock readings are kept relative to the present: the clock reads    *)
(*     Now, a reading taken d ticks ago is Now - d, and the passing of     *)
(*     time moves the stored readings back. A reading older than the       *)
(*     longest duration the code compares it with is kept at that age      *)
(*     plus one step.                                                      *)
(*   - Of each log the most recent entry is kept, with the fields the      *)
(*     properties read; wall-clock timestamps are left out.                *)
(*   - Messages published to the operator interface are output, not state. *)
(*   - A timer is the time left until it is due. Where timers are not      *)
(*     followed (NodeSpec), a timer callback may run at any moment.        *)
(***************************************************************************)
\* self.get_clock().now()
Now == 0

\* the longest timeout_seconds of a decision, in seconds
LongestTimeout == 60

\* (a - b).nanoseconds / 1e9, in ticks
Elapsed(a, b) == a - b

\* str.lower(), letter by letter
UpperCaseLetters == "ABCDEFGHIJKLMNOPQRSTUVWXYZ"
LowerCaseLetters == "abcdefghijklmnopqrstuvwxyz"
LowerChar(c) ==
    IF \E i \in 1..Len(UpperCaseLetters) : SubSeq(UpperCaseLetters, i, i) = c
    THEN LET i == CHOOSE j \in 1..Len(UpperCaseLetters) :
                      SubSeq(UpperCaseLetters, j, j) = c
         IN  SubSeq(LowerCaseLetters, i, i)
    ELSE c
RECURSIVE lower(_)
lower(s) ==
    IF Len(s) = 0 THEN ""
    ELSE LowerChar(SubSeq(s, 1, 1)) \o lower(SubSeq(s, 2, Len(s)))

\* the table both token callbacks use
mode_map ==
    [t \in {"autonomous", "human", "shared"} |->
        CASE t = "autonomous" -> AUTONOMOUS
          [] t = "human" -> HUMAN
          [] t = "shared" -> SHARED]

\* list.append, keeping the most recent entry
LogAppend(log, entry) == <<entry>>

\* __init__: the fields of a fresh node
NewModeArbitratorNode ==
    [current_mode |-> HUMAN,
     current_phase |-> "Transit",
     current_task_criticality |-> "Routine",
     last_mode_change_time |-> Now,
     latest_bn_recommendation |-> None,
     human_reliability |-> 85,
     autonomous_reliability |-> 80,
     docking_reliability |-> None,
     bn_confidence |-> 70,
     pending_decision |-> None,
     decision_request_time |-> None,
     mode_change_log |-> <<>>,
     \* created by the first _log_decision; empty until then
     decision_log |-> <<>>]

bn_recommendation_callback(self, data) ==
    LET mode_str == lower(data)
    IN  [self EXCEPT !.latest_bn_recommendation =
                         Some(DictGet(mode_map, mode_str, SHARED))]

human_reliability_callback(self, data) ==
    [self EXCEPT !.human_reliability = data]

autonomous_reliability_callback(self, data) ==
    [self EXCEPT !.autonomous_reliability = data]

docking_reliability_callback(self, data) ==
    [self EXCEPT !.docking_reliability = Some(data)]

bn_confidence_callback(self, data) ==
    [self EXCEPT !.bn_confidence = data]

mission_phase_callback(self, data) ==
    [self EXCEPT !.current_phase = data]

task_criticality_callback(self, data) ==
    [self EXCEPT !.current_task_criticality = data]

_log_decision(self, decision_type, dec) ==
    [self EXCEPT !.decision_log =
        LogAppend(@, [decision_type |-> decision_type])]

_execute_mode_change(self, new_mode, reason) ==
    LET old_mode == self.current_mode
    IN  [self EXCEPT
            !.current_mode = new_mode,
            !.last_mode_change_time = Now,
            !.mode_change_log =
                LogAppend(@, [old_mode |-> old_mode,
                              new_mode |-> new_mode])]

\* _request_operator_decision keeping the request time of a decision that
\* is already pending
_request_operator_decision_keeps_deadline(self, dec) ==
    [self EXCEPT !.pending_decision = Some(dec),
                 !.decision_request_time =
                     IF IsNone(@) THEN Some(Now) ELSE @]

_request_operator_decision(self, dec) ==
    [self EXCEPT !.pending_decision = Some(dec),
                 !.decision_request_time = Some(Now)]

\* _execute_decision applying a Suggest decision as if it were an AutoSwitch
_execute_decision_suggest_applies(self, dec) ==
    IF dec.action_type = NONE
    THEN self
    ELSE IF dec.action_type = AUTO_SWITCH \/ dec.action_type = SUGGEST
    THEN _log_decision(
             _execute_mode_change(self, dec.target_mode, dec.message),
             "auto_switch", dec)
    ELSE IF dec.action_type = ASK
    THEN _log_decision(_request_operator_decision(self, dec),
                       "asked_operator", dec)
    ELSE IF dec.action_type = NOTIFY
    THEN _log_decision(self, "notified", dec)
    ELSE IF dec.action_type = BLOCK
    THEN _log_decision(self, "blocked", dec)
    ELSE self

_execute_decision(self, dec) ==
    IF dec.action_type = NONE
    THEN self
    ELSE IF dec.action_type = AUTO_SWITCH
    THEN _log_decision(
             _execute_mode_change(self, dec.target_mode, dec.message),
             "auto_switch", dec)
    ELSE IF dec.action_type = ASK
    THEN _log_decision(_request_operator_decision(self, dec),
                       "asked_operator", dec)
    ELSE IF dec.action_type = SUGGEST
    THEN _log_decision(self, "suggested", dec)
    ELSE IF dec.action_type = NOTIFY
    THEN _log_decision(self, "notified", dec)
    ELSE IF dec.action_type = BLOCK
    THEN _log_decision(self, "blocked", dec)
    ELSE self

\* the decision an arbitration cycle evaluates; the caller has checked that
\* a recommendation was received
ArbitrationDecision(self, engine) ==
    LET bn_rec == ModeRecommendation(
                      Val(self.latest_bn_recommendation),
                      self.bn_confidence,
                      self.human_reliability,
                      self.autonomous_reliability,
                      self.docking_reliability)
        current_time == Now
        time_since_change == Elapsed(current_time, self.last_mode_change_time)
    IN  evaluate_mode_change(engine, self.current_mode, bn_rec,
                             self.current_phase, self.current_task_criticality,
                             time_since_change, None)

\* arbitration_loop taking Shared for a recommendation not yet received
arbitration_loop_default_recommendation(self, engine) ==
    LET received == IF IsNone(self.latest_bn_recommendation)
                    THEN [self EXCEPT !.latest_bn_recommendation = Some(SHARED)]
                    ELSE self
        cycled == _execute_decision(received,
                                    ArbitrationDecision(received, engine))
    IN  [cycled EXCEPT
            !.latest_bn_recommendation = self.latest_bn_recommendation]

arbitration_loop(self, engine) ==
    IF IsNone(self.latest_bn_recommendation)
    THEN self
    ELSE _execute_decision(self, ArbitrationDecision(self, engine))

\* the decision an operator override is answered with
OverrideDecision(self, engine, requested_mode) ==
    LET risk_level_ == get_risk_level(self.current_phase,
                                      self.current_task_criticality)
    IN  _handle_operator_override(engine, requested_mode, self.current_mode,
                                  risk_level_, self.current_phase)

_process_operator_override(self, engine, requested_mode) ==
    _execute_decision(self, OverrideDecision(self, engine, requested_mode))

\* operator_override_callback taking Shared for a token outside the table,
\* as the recommendation callback does
operator_override_callback_default_shared(self, engine, data) ==
    LET requested_mode_str == lower(data)
        requested_mode == Some(DictGet(mode_map, requested_mode_str, SHARED))
    IN  IF ~IsNone(requested_mode)
        THEN _process_operator_override(self, engine, Val(requested_mode))
        ELSE self

\* mode_map.get gives None for a token outside the table, and a member of
\* the plain Enum ControlMode is true whatever its value
operator_override_callback(self, engine, data) ==
    LET requested_mode_str == lower(data)
        requested_mode ==
            IF requested_mode_str \in DOMAIN mode_map
            THEN Some(mode_map[requested_mode_str])
            ELSE None
    IN  IF ~IsNone(requested_mode)
        THEN _process_operator_override(self, engine, Val(requested_mode))
        ELSE self

operator_decision_response_callback(self, accepted) ==
    IF IsNone(self.pending_decision)
    THEN self
    ELSE LET pending == Val(self.pending_decision)
             answered ==
                 IF accepted
                 THEN _execute_mode_change(self, pending.target_mode,
                          "Operator accepted: " \o pending.message)
                 ELSE _log_decision(self, "operator_declined", pending)
         IN  [answered EXCEPT !.pending_decision = None,
                              !.decision_request_time = None]

\* check_pending_decisions leaving the request time behind on a timeout
check_pending_decisions_keeps_request_time(self) ==
    IF IsNone(self.pending_decision)
    THEN self
    ELSE IF IsNone(self.decision_request_time)
    THEN self
    ELSE LET timeout == Val(self.pending_decision).timeout_seconds
         IN  IF IsNone(timeout)
             THEN self
             ELSE LET current_time == Now
                      elapsed == Elapsed(current_time,
                                         Val(self.decision_request_time))
                  IN  IF elapsed > Seconds(Val(timeout))
                      THEN [_log_decision(self, "timeout",
                                          Val(self.pending_decision))
                               EXCEPT !.pending_decision = None]
                      ELSE self

check_pending_decisions(self) ==
    IF IsNone(self.pending_decision)
    THEN self
    ELSE IF IsNone(self.decision_request_time)
    THEN self
    ELSE LET timeout == Val(self.pending_decision).timeout_seconds
         IN  IF IsNone(timeout)
             THEN self
             ELSE LET current_time == Now
                      elapsed == Elapsed(current_time,
                                         Val(self.decision_request_time))
                  IN  IF elapsed > Seconds(Val(timeout))
                      THEN [_log_decision(self, "timeout",
                                          Val(self.pending_decision))
                               EXCEPT !.pending_decision = None,
                                      !.decision_request_time = None]
                      ELSE self

\* publish_status reads the node and publishes; it assigns nothing
publish_status(self) == self

\* create_timer: the periods of the three timers, in ticks
timer_period ==
    [arbitration_loop |-> Seconds(1) \div 2,
     check_pending_decisions |-> Seconds(1),
     publish_status |-> Seconds(5)]

\* the timers as __init__ creates them: each is due one period from now
NewTimers == timer_period

\* a timer is due when no time is left until it fires
IsDue(ts, name) == ts[name] = 0

\* a timer that fired is due again one period later
Rearm(ts, name) == [ts EXCEPT ![name] = timer_period[name]]

\* d ticks pass for the timers
TimersAfter(ts, d) == [name \in DOMAIN ts |-> ts[name] - d]

\* the clock moves on by d ticks: every stored reading is d ticks older; a
\* reading is not kept older than limit
Older(reading, d, limit) ==
    IF Elapsed(Now, reading) + d > limit THEN Now - limit ELSE reading - d

\* the ages past which the code treats all readings alike: the minimum
\* mode duration for the last mode change, one tick more than the longest
\* timeout for a request
PassTime(self, engine, d) ==
    [self EXCEPT
        !.last_mode_change_time = Older(@, d, engine.minimum_mode_duration),
        !.decision_request_time =
            IF IsNone(@) THEN None
            ELSE Some(Older(Val(@), d, Seconds(LongestTimeout) + 1))]

(***************************************************************************)
(* The inputs tried                                                        *)
(***************************************************************************)
\* the six phases of PHASE_RISK_MAP and one name it does not hold
Phases ==
    {"Docking", "DockingApproach", "Undocking", "Inspection", "Transit",
     "Charging", "Survey"}

\* the three criticalities of CRITICALITY_MODIFIER and one it does not hold
Criticalities == {"Routine", "Important", "Critical", "Urgent"}

\* whole percents on both sides of, and on, the thresholds 50 and 60
HumanReliabilities == {45, 50, 60, 90}
AutonomousReliabilities == {55, 60, 90}
DockingReliabilities == {None, Some(65)}
Confidences == {70, 90}

\* elapsed times, in ticks: just changed, one tick short of the minimum
\* mode duration, exactly on it, and after it
ElapsedValues ==
    {0, Seconds(120) - 1, Seconds(120), Seconds(130), Seconds(200),
     Seconds(MaxElapsed)}

Recommendations ==
    {ModeRecommendation(rm, c, hr, ar, dr) :
        rm \in ControlMode, c \in Confidences, hr \in HumanReliabilities,
        ar \in AutonomousReliabilities, dr \in DockingReliabilities}

Overrides == {None} \cup {Some(m) : m \in ControlMode}

\* the arguments of a sequence of calls: both directions between Autonomous
\* and Human, a Critical and a Low phase, inside and after the 120 s window
SequenceModes == {AUTONOMOUS, HUMAN}
SequencePhases == {"Docking", "Transit"}
SequenceElapsed == {Seconds(120) - 1, Seconds(120)}
SequenceRecommendations ==
    {ModeRecommendation(rm, 70, 90, 90, None) : rm \in SequenceModes}

(***************************************************************************)
(* The state machine: one call on a fresh engine                           *)
(***************************************************************************)
Init ==
    /\ rule_engine = NewAuthorityRuleEngine
    /\ current_mode \in ControlMode
    /\ bn_recommendation \in Recommendations
    /\ mission_phase \in Phases
    /\ task_criticality \in Criticalities
    /\ time_since_last_change \in ElapsedValues
    /\ operator_override \in Overrides
    /\ risk_level = None
    /\ decision = None
    /\ autonomous_allowed = None
    /\ calls = <<>>
    /\ node = NewModeArbitratorNode
    /\ timers = NewTimers

\* the arguments of the call of evaluate_mode_change at hand
Arguments ==
    [current_mode |-> current_mode,
     bn_recommendation |-> bn_recommendation,
     mission_phase |-> mission_phase,
     task_criticality |-> task_criticality,
     time_since_last_change |-> time_since_last_change,
     operator_override |-> operator_override]

\* the call of evaluate_mode_change: the local risk_level is set and the
\* decision is returned; the arguments are left as they are
EvaluateModeChange ==
    /\ IsNone(decision)
    /\ IsNone(autonomous_allowed)
    /\ risk_level' = Some(get_risk_level(mission_phase, task_criticality))
    /\ decision' = Some(evaluate_mode_change(rule_engine, current_mode,
                            bn_recommendation, mission_phase, task_criticality,
                            time_since_last_change, operator_override))
    /\ rule_engine' = evaluate_mode_change_self(rule_engine, current_mode,
                            bn_recommendation, mission_phase, task_criticality,
                            time_since_last_change, operator_override)
    /\ calls' = Append(calls, [arguments |-> Arguments, decision |-> Val(decision')])
    /\ UNCHANGED <<current_mode, bn_recommendation, mission_phase,
                   task_criticality, time_since_last_change, operator_override,
                   autonomous_allowed,
                   node, timers>>

\* the call of PhaseRiskClassifier.is_autonomous_allowed on the phase and
\* the criticality: the local risk_level is set and the answer is returned
IsAutonomousAllowed ==
    /\ IsNone(decision)
    /\ IsNone(autonomous_allowed)
    /\ risk_level' = Some(get_risk_level(mission_phase, task_criticality))
    /\ autonomous_allowed' =
           Some(is_autonomous_allowed(mission_phase, task_criticality))
    /\ UNCHANGED <<rule_engine, current_mode, bn_recommendation, mission_phase,
                   task_criticality, time_since_last_change, operator_override,
                   decision, calls, node,
                   timers>>

Next == EvaluateModeChange \/ IsAutonomousAllowed

Spec == Init /\ [][Next]_vars

\* reliabilities over the whole of [0, 1]: the ends and both sides of the
\* engine's three thresholds
TotalReliabilities == {0, 49, 50, 59, 60, 79, 80, 100}
TotalElapsed == {0, Seconds(120)}
TotalRecommendations ==
    {ModeRecommendation(rm, 70, hr, ar, dr) :
        rm \in ControlMode, hr \in TotalReliabilities,
        ar \in TotalReliabilities, dr \in DockingReliabilities}

(***************************************************************************)
(* The state machine: one call, over the whole range of the reliabilities  *)
(***************************************************************************)
TotalInit ==
    /\ rule_engine = NewAuthorityRuleEngine
    /\ current_mode \in ControlMode
    /\ bn_recommendation \in TotalRecommendations
    /\ mission_phase \in Phases
    /\ task_criticality \in Criticalities
    /\ time_since_last_change \in TotalElapsed
    /\ operator_override \in Overrides
    /\ risk_level = None
    /\ decision = None
    /\ autonomous_allowed = None
    /\ calls = <<>>
    /\ node = NewModeArbitratorNode
    /\ timers = NewTimers

TotalNext == EvaluateModeChange

TotalSpec == TotalInit /\ [][TotalNext]_vars

\* scores for the labels: every whole percent for the operator, both sides
\* of each boundary for the system and for the confidence
LabelHumanReliabilities == 0..100
LabelAutonomousReliabilities == {49, 50, 59, 60, 69, 70, 79, 80}
LabelConfidences == {0, 59, 60, 61, 79, 80, 81, 100}
LabelRecommendations ==
    {ModeRecommendation(AUTONOMOUS, c, hr, ar, None) :
        c \in LabelConfidences, hr \in LabelHumanReliabilities,
        ar \in LabelAutonomousReliabilities}

(***************************************************************************)
(* The state machine: one call that composes an explanation, over the      *)
(* scores                                                                  *)
(***************************************************************************)
LabelInit ==
    /\ rule_engine = NewAuthorityRuleEngine
    /\ current_mode = HUMAN
    /\ bn_recommendation \in LabelRecommendations
    /\ mission_phase = "Undocking"
    /\ task_criticality = "Routine"
    /\ time_since_last_change = Seconds(120)
    /\ operator_override = None
    /\ risk_level = None
    /\ decision = None
    /\ autonomous_allowed = None
    /\ calls = <<>>
    /\ node = NewModeArbitratorNode
    /\ timers = NewTimers

LabelNext == EvaluateModeChange

LabelSpec == LabelInit /\ [][LabelNext]_vars

(***************************************************************************)
(* The state machine: a sequence of calls on one engine                    *)
(***************************************************************************)
CallsInit ==
    /\ rule_engine = NewAuthorityRuleEngine
    /\ current_mode \in SequenceModes
    /\ bn_recommendation \in SequenceRecommendations
    /\ mission_phase \in SequencePhases
    /\ task_criticality = "Routine"
    /\ time_since_last_change \in SequenceElapsed
    /\ operator_override = None
    /\ risk_level = None
    /\ decision = None
    /\ autonomous_allowed = None
    /\ calls = <<>>
    /\ node = NewModeArbitratorNode
    /\ timers = NewTimers

\* the caller makes up the arguments of its next call
NextArguments ==
    /\ ~IsNone(decision)
    /\ Len(calls) < MaxCalls
    /\ current_mode' \in SequenceModes
    /\ bn_recommendation' \in SequenceRecommendations
    /\ mission_phase' \in SequencePhases
    /\ time_since_last_change' \in SequenceElapsed
    /\ risk_level' = None
    /\ decision' = None
    /\ UNCHANGED <<rule_engine, task_criticality, operator_override,
                   autonomous_allowed, calls, node, timers>>

CallsNext == EvaluateModeChange \/ NextArguments

CallsSpec == CallsInit /\ [][CallsNext]_vars

\* the messages the node receives; "manual" and "auto" are in no table, and
\* Shared is recommended by the token "manual" only
RecommendationTokens == {"autonomous", "Human", "manual"}
OverrideTokens == {"autonomous", "human", "Shared", "auto"}
NodePhases == {"Transit", "Undocking"}
NodeCriticalities == {"Routine", "Important"}
NodeHumanReliabilities == {85}
NodeAutonomousReliabilities == {55, 80}
NodeDockingReliabilities == {65}
NodeConfidences == {70}

(***************************************************************************)
(* The state machine: the arbitrator node and the events it handles        *)
(***************************************************************************)
\* the variables of a direct call of the engine, which the node leaves alone
callVars ==
    <<current_mode, bn_recommendation, mission_phase, task_criticality,
      time_since_last_change, operator_override, risk_level, decision,
      autonomous_allowed, calls>>

NodeInit ==
    /\ rule_engine = NewAuthorityRuleEngine
    /\ node = NewModeArbitratorNode
    /\ timers = NewTimers
    /\ current_mode = node.current_mode
    /\ bn_recommendation = ModeRecommendation(HUMAN, 70, 85, 80, None)
    /\ mission_phase = node.current_phase
    /\ task_criticality = node.current_task_criticality
    /\ time_since_last_change = 0
    /\ operator_override = None
    /\ risk_level = None
    /\ decision = None
    /\ autonomous_allowed = None
    /\ calls = <<>>

BnRecommendation ==
    /\ \E data \in RecommendationTokens :
           node' = bn_recommendation_callback(node, data)
    /\ UNCHANGED <<rule_engine, callVars, timers>>

HumanReliability ==
    /\ \E data \in NodeHumanReliabilities :
           node' = human_reliability_callback(node, data)
    /\ UNCHANGED <<rule_engine, callVars, timers>>

AutonomousReliability ==
    /\ \E data \in NodeAutonomousReliabilities :
           node' = autonomous_reliability_callback(node, data)
    /\ UNCHANGED <<rule_engine, callVars, timers>>

DockingReliability ==
    /\ \E data \in NodeDockingReliabilities :
           node' = docking_reliability_callback(node, data)
    /\ UNCHANGED <<rule_engine, callVars, timers>>

BnConfidence ==
    /\ \E data \in NodeConfidences :
           node' = bn_confidence_callback(node, data)
    /\ UNCHANGED <<rule_engine, callVars, timers>>

MissionPhase ==
    /\ \E data \in NodePhases : node' = mission_phase_callback(node, data)
    /\ UNCHANGED <<rule_engine, callVars, timers>>

TaskCriticality ==
    /\ \E data \in NodeCriticalities :
           node' = task_criticality_callback(node, data)
    /\ UNCHANGED <<rule_engine, callVars, timers>>

OperatorOverride ==
    /\ \E data \in OverrideTokens :
           node' = operator_override_callback(node, rule_engine, data)
    /\ UNCHANGED <<rule_engine, callVars, timers>>

OperatorDecisionResponse ==
    /\ \E data \in BOOLEAN :
           node' = operator_decision_response_callback(node, data)
    /\ UNCHANGED <<rule_engine, callVars, timers>>

\* the 2 Hz timer
ArbitrationLoop ==
    /\ node' = arbitration_loop(node, rule_engine)
    /\ UNCHANGED <<rule_engine, callVars, timers>>

\* the 1 Hz timer
CheckPendingDecisions ==
    /\ node' = check_pending_decisions(node)
    /\ UNCHANGED <<rule_engine, callVars, timers>>

\* the 0.2 Hz timer
PublishStatus ==
    /\ node' = publish_status(node)
    /\ UNCHANGED <<rule_engine, callVars, timers>>

\* time passes between two callbacks
Tick ==
    /\ node' = PassTime(node, rule_engine, Seconds(TimeStep))
    /\ UNCHANGED <<rule_engine, callVars, timers>>

NodeNext ==
    \/ BnRecommendation
    \/ HumanReliability
    \/ AutonomousReliability
    \/ DockingReliability
    \/ BnConfidence
    \/ MissionPhase
    \/ TaskCriticality
    \/ OperatorOverride
    \/ OperatorDecisionResponse
    \/ ArbitrationLoop
    \/ CheckPendingDecisions
    \/ PublishStatus
    \/ Tick

NodeSpec == NodeInit /\ [][NodeNext]_vars

(***************************************************************************)
(* The state machine: the node left alone                                  *)
(*                                                                         *)
(* The node has received a recommendation; from then on no message         *)
(* arrives: the inputs stay as they are and the operator is silent. Only   *)
(* the three timers run, each at its period, and time passes one tick at   *)
(* a time while no timer is due. Timers due at the same instant are served *)
(* in any order.                                                           *)
(***************************************************************************)
\* the situations the node is left in
UnattendedModes == ControlMode
UnattendedRecommendations == ControlMode
UnattendedPhases == {"Transit", "Undocking"}
UnattendedCriticalities == {"Routine", "Important"}

\* the node as its own callbacks leave it in the situation: constructed in
\* Human, put into another mode by an operator override, left for the
\* minimum mode duration, then told the phase, the criticality and the
\* recommendation
Situation(engine, mode, recommended, phase, criticality) ==
    LET constructed == NewModeArbitratorNode
        entered == IF mode = HUMAN THEN constructed
                   ELSE operator_override_callback(constructed, engine, mode)
        settled == PassTime(entered, engine, engine.minimum_mode_duration)
    IN  bn_recommendation_callback(
            task_criticality_callback(
                mission_phase_callback(settled, phase), criticality),
            recommended)

UnattendedInit ==
    /\ rule_engine = NewAuthorityRuleEngine
    /\ \E mode \in UnattendedModes, recommended \in UnattendedRecommendations,
          phase \in UnattendedPhases, criticality \in UnattendedCriticalities :
           node = Situation(rule_engine, mode, recommended, phase, criticality)
    /\ timers = NewTimers
    /\ current_mode = node.current_mode
    /\ bn_recommendation = ModeRecommendation(HUMAN, 70, 85, 80, None)
    /\ mission_phase = node.current_phase
    /\ task_criticality = node.current_task_criticality
    /\ time_since_last_change = 0
    /\ operator_override = None
    /\ risk_level = None
    /\ decision = None
    /\ autonomous_allowed = None
    /\ calls = <<>>

\* the 2 Hz timer fires
TimerArbitrationLoop ==
    /\ IsDue(timers, "arbitration_loop")
    /\ node' = arbitration_loop(node, rule_engine)
    /\ timers' = Rearm(timers, "arbitration_loop")
    /\ UNCHANGED <<rule_engine, callVars>>

\* the 1 Hz timer fires
TimerCheckPendingDecisions ==
    /\ IsDue(timers, "check_pending_decisions")
    /\ node' = check_pending_decisions(node)
    /\ timers' = Rearm(timers, "check_pending_decisions")
    /\ UNCHANGED <<rule_engine, callVars>>

\* the 0.2 Hz timer fires
TimerPublishStatus ==
    /\ IsDue(timers, "publish_status")
    /\ node' = publish_status(node)
    /\ timers' = Rearm(timers, "publish_status")
    /\ UNCHANGED <<rule_engine, callVars>>

\* no timer is due: one tick passes
Advance ==
    /\ \A name \in DOMAIN timers : ~IsDue(timers, name)
    /\ node' = PassTime(node, rule_engine, 1)
    /\ timers' = TimersAfter(timers, 1)
    /\ UNCHANGED <<rule_engine, callVars>>

UnattendedNext ==
    \/ TimerArbitrationLoop
    \/ TimerCheckPendingDecisions
    \/ TimerPublishStatus
    \/ Advance

\* the executor serves every timer that is due, and time does not stop
UnattendedSpec ==
    /\ UnattendedInit
    /\ [][UnattendedNext]_vars
    /\ WF_vars(TimerArbitrationLoop)
    /\ WF_vars(TimerCheckPendingDecisions)
    /\ WF_vars(TimerPublishStatus)
    /\ WF_vars(Advance)

(***************************************************************************)
(* Properties                                                              *)
(***************************************************************************)
\* the call has returned
Returned == ~IsNone(decision)
\* the decision it returned
Result == Val(decision)
\* the recommended mode of the call
RecommendedMode == bn_recommendation.recommended_mode
\* the effective risk level the call computed
EffectiveRisk == Val(risk_level)
NoOverride == IsNone(operator_override)
\* the trigger conditions of the two hard safety rules, as the
\* specification words them
RuleAHolds ==
    /\ EffectiveRisk = 4
    /\ current_mode = "HUMAN"
    /\ bn_recommendation.human_reliability < 50
RuleBHolds ==
    /\ current_mode = "AUTONOMOUS"
    /\ RecommendedMode = "HUMAN"
    /\ bn_recommendation.autonomous_reliability < 60

\* C1: whenever the effective risk level of (phase, criticality) is
\* Critical, an operator override to Autonomous is answered by Block with
\* target_mode = current_mode, urgency high and allow_decline = false; and
\* an override to Autonomous is blocked exactly when
\* is_autonomous_allowed(phase, criticality) is false.
C1_OverrideToAutonomousBlockedAtCriticalRisk ==
    (Returned /\ operator_override = Some("AUTONOMOUS")) =>
        /\ (EffectiveRisk = 4) =>
              /\ Result.action_type = "block"
              /\ Result.target_mode = current_mode
              /\ Result.urgency = "high"
              /\ Result.allow_decline = FALSE
        /\ (Result.action_type = "block")
              <=> ~is_autonomous_allowed(mission_phase, task_criticality)

\* C2: in phase Docking an operator override to Autonomous is answered by
\* Block with target_mode = current_mode, whatever the current mode, the
\* criticality, the recommendation, the reliabilities and the elapsed time.
C2_DockingOverrideToAutonomousBlocked ==
    (Returned /\ mission_phase = "Docking"
              /\ operator_override = Some("AUTONOMOUS")) =>
        /\ Result.action_type = "block"
        /\ Result.target_mode = current_mode

\* C2 witness: the override to Autonomous in Docking was blocked while the
\* engine would otherwise have switched on Rule B inside the hysteresis window.
C2_Witness ==
    /\ Returned
    /\ mission_phase = "Docking"
    /\ operator_override = Some("AUTONOMOUS")
    /\ task_criticality = "Routine"
    /\ RuleBHolds
    /\ time_since_last_change = 0
    /\ Result.action_type = "block"
    /\ Result.target_mode = "AUTONOMOUS"

\* C3: when an operator override is present the decision is tier 1's: Block
\* with target = current_mode, or AutoSwitch to the override mode; never
\* Notify, None, Ask or Suggest, also when Rule A or Rule B holds, inside
\* the 120 s window, or when recommended_mode = current_mode.
C3_OverrideDecidedByTierOneAlone ==
    (Returned /\ ~NoOverride) =>
        \/ /\ Result.action_type = "block"
           /\ Result.target_mode = current_mode
        \/ /\ Result.action_type = "auto_switch"
           /\ Result.target_mode = Val(operator_override)

\* C3 witness: Rule B holds inside the 120 s window and the override to
\* Shared was honoured all the same.
C3_Witness ==
    /\ Returned
    /\ operator_override = Some("SHARED")
    /\ RuleBHolds
    /\ time_since_last_change < Seconds(120)
    /\ Result.action_type = "auto_switch"
    /\ Result.target_mode = "SHARED"

\* the urgency table of the specification
SpecUrgency(risk) ==
    CASE risk = 0 -> "low"
      [] risk = 1 -> "low"
      [] risk = 2 -> "medium"
      [] risk = 3 -> "high"
      [] risk = 4 -> "critical"

\* C4: an operator override that is not blocked is answered by AutoSwitch
\* to the override mode (also when it is the current mode), with
\* allow_decline = false, no timeout, and the urgency the table gives for
\* the effective risk level of (phase, criticality).
C4_AcceptedOverrideIsAutoSwitch ==
    (Returned /\ ~NoOverride /\ Result.action_type /= "block") =>
        /\ Result.action_type = "auto_switch"
        /\ Result.target_mode = Val(operator_override)
        /\ Result.allow_decline = FALSE
        /\ Result.timeout_seconds = None
        /\ Result.urgency = SpecUrgency(EffectiveRisk)

\* C4 witness: an override to the mode already active, accepted at Critical
\* risk with urgency critical.
C4_Witness ==
    /\ Returned
    /\ operator_override = Some("HUMAN")
    /\ current_mode = "HUMAN"
    /\ EffectiveRisk = 4
    /\ Result.action_type = "auto_switch"
    /\ Result.target_mode = "HUMAN"
    /\ Result.urgency = "critical"

\* C5: Hard Safety Rule B. With no override, current_mode = Autonomous,
\* recommended_mode = Human and autonomous_reliability < 0.6 give AutoSwitch
\* to Human with urgency high and allow_decline = false, in every phase and
\* criticality and at every elapsed time, inside the 120 s window too.
C5_RuleBSwitchesToHuman ==
    (Returned /\ NoOverride /\ RuleBHolds) =>
        /\ Result.action_type = "auto_switch"
        /\ Result.target_mode = "HUMAN"
        /\ Result.urgency = "high"
        /\ Result.allow_decline = FALSE

\* C5 witness: Rule B fired one tick after a mode change, in a Safe phase.
C5_Witness ==
    /\ Returned
    /\ NoOverride
    /\ RuleBHolds
    /\ time_since_last_change = 0
    /\ EffectiveRisk = 0
    /\ Result.action_type = "auto_switch"
    /\ Result.target_mode = "HUMAN"

\* C6: Hard Safety Rule A. With no override, effective risk Critical,
\* current_mode = Human and human_reliability < 0.5 give Notify with
\* target_mode = Human, urgency critical and allow_decline = false, for
\* every recommended mode and every elapsed time.
C6_RuleANotifies ==
    (Returned /\ NoOverride /\ RuleAHolds) =>
        /\ Result.action_type = "notify"
        /\ Result.target_mode = "HUMAN"
        /\ Result.urgency = "critical"
        /\ Result.allow_decline = FALSE

\* C6 witness: Rule A fired with Shared recommended, after the 120 s
\* window, in a phase raised to Critical by the criticality.
C6_Witness ==
    /\ Returned
    /\ NoOverride
    /\ RuleAHolds
    /\ mission_phase = "Inspection"
    /\ RecommendedMode = "SHARED"
    /\ time_since_last_change = Seconds(200)
    /\ Result.action_type = "notify"

\* the inputs of Scenario 2
Scenario2 ==
    /\ mission_phase = "Transit"
    /\ EffectiveRisk = 1
    /\ NoOverride
    /\ current_mode = "AUTONOMOUS"
    /\ RecommendedMode = "HUMAN"
    /\ bn_recommendation.human_reliability = 90
    /\ bn_recommendation.autonomous_reliability = 55
    /\ time_since_last_change = Seconds(200)

\* C7 as claimed: Scenario 2 returns Notify and the target mode remains
\* Autonomous.
C7_Scenario2Notifies ==
    (Returned /\ Scenario2) =>
        /\ Result.action_type = "notify"
        /\ Result.target_mode = "AUTONOMOUS"

\* C7 as amended: Scenario 2 returns AutoSwitch to Human with urgency high,
\* since autonomous_reliability 0.55 < 0.6 makes Hard Safety Rule B fire.
C7_Scenario2SwitchesToHuman ==
    (Returned /\ Scenario2) =>
        /\ Result.action_type = "auto_switch"
        /\ Result.target_mode = "HUMAN"
        /\ Result.urgency = "high"
        /\ Result.allow_decline = FALSE

\* C7 witness: Scenario 2 was evaluated and the engine switched to Human.
C7_Witness ==
    /\ Returned
    /\ Scenario2
    /\ Result.action_type = "auto_switch"
    /\ Result.target_mode = "HUMAN"

\* C8: hysteresis. With no override, elapsed < 120 s, recommended_mode /=
\* current_mode and neither hard safety rule firing, the decision is None
\* with target_mode = current_mode, in every phase and criticality.
C8_HysteresisHolds ==
    (Returned /\ NoOverride
              /\ time_since_last_change < Seconds(120)
              /\ RecommendedMode /= current_mode
              /\ ~RuleAHolds /\ ~RuleBHolds) =>
        /\ Result.action_type = "none"
        /\ Result.target_mode = current_mode

\* C8 witness: a Safe phase, Human with Autonomous recommended, one tick
\* short of 120 s: held, where the phase rule would switch to Autonomous.
C8_Witness ==
    /\ Returned
    /\ NoOverride
    /\ EffectiveRisk = 0
    /\ current_mode = "HUMAN"
    /\ RecommendedMode = "AUTONOMOUS"
    /\ time_since_last_change = Seconds(120) - 1
    /\ Result.action_type = "none"
    /\ Result.target_mode = "HUMAN"

\* C9 as stated: with no override and effective risk Critical the decision
\* is never AutoSwitch, Ask or Suggest with target_mode = Autonomous, for
\* every mode, recommendation, reliability and elapsed time; Human ->
\* Autonomous is Block and Shared -> Autonomous is None.
C9_HumanToAutonomousAlwaysBlocked ==
    (Returned /\ NoOverride /\ EffectiveRisk = 4) =>
        /\ ~(/\ Result.action_type \in {"auto_switch", "ask", "suggest"}
             /\ Result.target_mode = "AUTONOMOUS")
        /\ (current_mode = "HUMAN" /\ RecommendedMode = "AUTONOMOUS") =>
               /\ Result.action_type = "block"
               /\ Result.target_mode = "HUMAN"
        /\ (current_mode = "SHARED" /\ RecommendedMode = "AUTONOMOUS") =>
               /\ Result.action_type = "none"
               /\ Result.target_mode = "SHARED"

\* C9 amended: with no override and effective risk Critical the decision
\* is never AutoSwitch, Ask or Suggest with target_mode = Autonomous, for
\* every mode, recommendation, reliability and elapsed time; Shared ->
\* Autonomous is None; Human -> Autonomous is Block where the phase rules
\* decide, that is once 120 s have passed since the last mode change and
\* Rule A does not fire.
C9_NoAutonomousHandoffAtCriticalRisk ==
    (Returned /\ NoOverride /\ EffectiveRisk = 4) =>
        /\ ~(/\ Result.action_type \in {"auto_switch", "ask", "suggest"}
             /\ Result.target_mode = "AUTONOMOUS")
        /\ (/\ current_mode = "HUMAN"
            /\ RecommendedMode = "AUTONOMOUS"
            /\ time_since_last_change >= Seconds(120)
            /\ ~RuleAHolds) =>
               /\ Result.action_type = "block"
               /\ Result.target_mode = "HUMAN"
        /\ (current_mode = "SHARED" /\ RecommendedMode = "AUTONOMOUS") =>
               /\ Result.action_type = "none"
               /\ Result.target_mode = "SHARED"

\* C9 witness: Human with Autonomous recommended at Critical risk reached
\* by the criticality modifier, after the window: blocked.
C9_Witness ==
    /\ Returned
    /\ NoOverride
    /\ mission_phase = "Undocking"
    /\ task_criticality = "Important"
    /\ EffectiveRisk = 4
    /\ current_mode = "HUMAN"
    /\ RecommendedMode = "AUTONOMOUS"
    /\ time_since_last_change >= Seconds(120)
    /\ Result.action_type = "block"

\* the base risk and the modifier tables of the specification
SpecBase(phase) ==
    CASE phase \in {"Docking", "DockingApproach"} -> 4
      [] phase = "Undocking" -> 3
      [] phase = "Inspection" -> 2
      [] phase = "Transit" -> 1
      [] phase = "Charging" -> 0

SpecModifier(criticality) ==
    CASE criticality = "Routine" -> 0
      [] criticality = "Important" -> 1
      [] criticality = "Critical" -> 2

\* C10: for the six phases and three criticalities of the tables,
\* risk_level = min(base(phase) + modifier(criticality), Critical); it is a
\* level in Safe..Critical and never below base(phase).
C10_RiskLevelIsClampedSum ==
    (/\ Returned
     /\ mission_phase \in
            {"Docking", "DockingApproach", "Undocking", "Inspection",
             "Transit", "Charging"}
     /\ task_criticality \in {"Routine", "Important", "Critical"}) =>
        LET sum == SpecBase(mission_phase) + SpecModifier(task_criticality)
        IN  /\ EffectiveRisk = IF sum <= 4 THEN sum ELSE 4
            /\ EffectiveRisk \in 0..4
            /\ EffectiveRisk >= SpecBase(mission_phase)

\* C10 witness: Undocking (High) with criticality Critical: 3 + 2 is cut
\* down to Critical.
C10_Witness ==
    /\ Returned
    /\ mission_phase = "Undocking"
    /\ task_criticality = "Critical"
    /\ EffectiveRisk = 4

\* the names the two tables of the specification list
SpecPhases ==
    {"Docking", "DockingApproach", "Undocking", "Inspection", "Transit",
     "Charging"}
SpecCriticalities == {"Routine", "Important", "Critical"}

\* C11: a phase name outside the table is classified with base risk Medium
\* and a criticality outside the table counts as modifier 0, so that
\* risk_level(unknown phase, unknown criticality) = Medium; and evaluate
\* still returns a decision for such names.
C11_UnknownNamesDefault ==
    /\ (~IsNone(risk_level) /\ mission_phase \notin SpecPhases) =>
          /\ (task_criticality = "Routine") => EffectiveRisk = 2
          /\ (task_criticality = "Important") => EffectiveRisk = 3
          /\ (task_criticality = "Critical") => EffectiveRisk = 4
          /\ (task_criticality \notin SpecCriticalities) => EffectiveRisk = 2
    /\ (~IsNone(risk_level) /\ task_criticality \notin SpecCriticalities
                            /\ mission_phase \in SpecPhases) =>
          EffectiveRisk = SpecBase(mission_phase)
    /\ (Returned /\ (mission_phase \notin SpecPhases
                     \/ task_criticality \notin SpecCriticalities)) =>
          /\ Result.action_type \in
                 {"auto_switch", "ask", "suggest", "notify", "block", "none"}
          /\ Result.target_mode \in {"AUTONOMOUS", "HUMAN", "SHARED"}

\* C11 witness: evaluate was called with a phase and a criticality that
\* are in neither table, computed Medium and asked the operator, as the
\* Medium ladder does for a hand-over to Human.
C11_Witness ==
    /\ Returned
    /\ mission_phase \notin SpecPhases
    /\ task_criticality \notin SpecCriticalities
    /\ EffectiveRisk = 2
    /\ NoOverride
    /\ current_mode = "AUTONOMOUS"
    /\ RecommendedMode = "HUMAN"
    /\ bn_recommendation.autonomous_reliability >= 60
    /\ time_since_last_change = Seconds(120)
    /\ Result.action_type = "ask"
    /\ Result.target_mode = "HUMAN"

\* the pairs of phase and criticality whose risk level the specification
\* gives as Critical, names outside the tables included
SpecCriticalPair(phase, criticality) ==
    \/ phase \in {"Docking", "DockingApproach"}
    \/ phase = "Undocking" /\ criticality \in {"Important", "Critical"}
    \/ phase \notin SpecPhases /\ criticality = "Critical"
    \/ phase = "Inspection" /\ criticality = "Critical"

\* C12: for every phase and criticality, is_autonomous_allowed(phase,
\* criticality) is true exactly when risk_level(phase, criticality) is not
\* Critical.
C12_AutonomousAllowedIffNotCritical ==
    ~IsNone(autonomous_allowed) =>
        /\ Val(autonomous_allowed) <=> (EffectiveRisk /= 4)
        /\ Val(autonomous_allowed)
               <=> ~SpecCriticalPair(mission_phase, task_criticality)

\* C12 witness: is_autonomous_allowed refused a Medium phase that the
\* criticality raises to Critical.
C12_Witness ==
    /\ autonomous_allowed = Some(FALSE)
    /\ mission_phase = "Inspection"
    /\ task_criticality = "Critical"
    /\ EffectiveRisk = 4

\* the call reached the phase-dependent rules with a change recommended:
\* no override and at least 120 s since the last mode change
PastWindow ==
    /\ Returned
    /\ NoOverride
    /\ time_since_last_change >= Seconds(120)

\* C13: the ladder from Autonomous to Human. With no override, 120 s or
\* more elapsed (exactly 120 s included), current_mode = Autonomous,
\* recommended_mode = Human and autonomous_reliability >= 0.6, the decision
\* is: at Critical AutoSwitch to Human with urgency critical; at High
\* AutoSwitch to Human with urgency high; at Medium Ask with target Human,
\* allow_decline and timeout 60; at Low Notify with target Autonomous; at
\* Safe None with target Autonomous.
C13_AutonomousToHumanLadder ==
    (/\ PastWindow
     /\ current_mode = "AUTONOMOUS"
     /\ RecommendedMode = "HUMAN"
     /\ bn_recommendation.autonomous_reliability >= 60) =>
        /\ (EffectiveRisk = 4) =>
              /\ Result.action_type = "auto_switch"
              /\ Result.target_mode = "HUMAN"
              /\ Result.urgency = "critical"
        /\ (EffectiveRisk = 3) =>
              /\ Result.action_type = "auto_switch"
              /\ Result.target_mode = "HUMAN"
              /\ Result.urgency = "high"
        /\ (EffectiveRisk = 2) =>
              /\ Result.action_type = "ask"
              /\ Result.target_mode = "HUMAN"
              /\ Result.allow_decline = TRUE
              /\ Result.timeout_seconds = Some(60)
        /\ (EffectiveRisk = 1) =>
              /\ Result.action_type = "notify"
              /\ Result.target_mode = "AUTONOMOUS"
        /\ (EffectiveRisk = 0) =>
              /\ Result.action_type = "none"
              /\ Result.target_mode = "AUTONOMOUS"

\* C13 witness: exactly 120 s after the last change, at Medium risk, the
\* operator was asked to take over with 60 s to answer.
C13_Witness ==
    /\ PastWindow
    /\ time_since_last_change = Seconds(120)
    /\ current_mode = "AUTONOMOUS"
    /\ RecommendedMode = "HUMAN"
    /\ bn_recommendation.autonomous_reliability = 60
    /\ EffectiveRisk = 2
    /\ Result.action_type = "ask"
    /\ Result.target_mode = "HUMAN"
    /\ Result.timeout_seconds = Some(60)

\* C14: the ladder from Human to Autonomous. With no override, 120 s or
\* more elapsed, current_mode = Human, recommended_mode = Autonomous and
\* no hard safety rule firing, the decision is: at Critical Block with
\* target Human (Scenario 1: DockingApproach, Routine, 200 s); at High Ask
\* with target Autonomous and timeout 45; at Medium and at Low Suggest
\* Autonomous with no timeout; at Safe AutoSwitch to Autonomous with
\* urgency low (Scenario 4: Charging, 130 s).
C14_HumanToAutonomousLadder ==
    (/\ PastWindow
     /\ current_mode = "HUMAN"
     /\ RecommendedMode = "AUTONOMOUS"
     /\ ~RuleAHolds
     /\ ~RuleBHolds) =>
        /\ (EffectiveRisk = 4) =>
              /\ Result.action_type = "block"
              /\ Result.target_mode = "HUMAN"
        /\ (EffectiveRisk = 3) =>
              /\ Result.action_type = "ask"
              /\ Result.target_mode = "AUTONOMOUS"
              /\ Result.timeout_seconds = Some(45)
        /\ (EffectiveRisk \in {1, 2}) =>
              /\ Result.action_type = "suggest"
              /\ Result.target_mode = "AUTONOMOUS"
              /\ Result.timeout_seconds = None
        /\ (EffectiveRisk = 0) =>
              /\ Result.action_type = "auto_switch"
              /\ Result.target_mode = "AUTONOMOUS"
              /\ Result.urgency = "low"
        /\ (/\ mission_phase = "DockingApproach"
            /\ task_criticality = "Routine"
            /\ time_since_last_change = Seconds(200)) =>
              /\ EffectiveRisk = 4
              /\ Result.action_type = "block"
              /\ Result.target_mode = "HUMAN"
        /\ (/\ mission_phase = "Charging"
            /\ task_criticality = "Routine"
            /\ time_since_last_change = Seconds(130)) =>
              /\ EffectiveRisk = 0
              /\ Result.action_type = "auto_switch"
              /\ Result.target_mode = "AUTONOMOUS"

\* C14 witness: Scenario 4. Charging, 130 s after the last change, the
\* operator in control and Autonomous recommended: the engine switched.
C14_Witness ==
    /\ PastWindow
    /\ mission_phase = "Charging"
    /\ task_criticality = "Routine"
    /\ time_since_last_change = Seconds(130)
    /\ current_mode = "HUMAN"
    /\ RecommendedMode = "AUTONOMOUS"
    /\ EffectiveRisk = 0
    /\ Result.action_type = "auto_switch"
    /\ Result.target_mode = "AUTONOMOUS"
    /\ Result.urgency = "low"

\* C15: at risk High with no override, 120 s or more elapsed, current_mode
\* = Human and recommended_mode = Autonomous, the decision is Ask with
\* target Autonomous, allow_decline = true and timeout 45; the urgency is
\* high and the reason flag fatigue_warning is set exactly when
\* human_reliability < 0.6, otherwise the urgency is medium and the flag
\* is unset (Scenario 3: Undocking, human_reliability 0.5, urgency high).
C15_HighRiskAskAutonomous ==
    (/\ PastWindow
     /\ EffectiveRisk = 3
     /\ current_mode = "HUMAN"
     /\ RecommendedMode = "AUTONOMOUS") =>
        /\ Result.action_type = "ask"
        /\ Result.target_mode = "AUTONOMOUS"
        /\ Result.allow_decline = TRUE
        /\ Result.timeout_seconds = Some(45)
        /\ "fatigue_warning" \in DOMAIN Result.reasons
        /\ IF bn_recommendation.human_reliability < 60
           THEN Result.urgency = "high"
                /\ Result.reasons.fatigue_warning = TRUE
           ELSE Result.urgency = "medium"
                /\ Result.reasons.fatigue_warning = FALSE
        /\ (/\ mission_phase = "Undocking"
            /\ task_criticality = "Routine"
            /\ bn_recommendation.human_reliability = 50
            /\ bn_recommendation.autonomous_reliability = 90
            /\ time_since_last_change = Seconds(200)) =>
               Result.urgency = "high"

\* C15 witness: human_reliability exactly 0.6 at High risk: the operator
\* was asked with urgency medium and no fatigue warning.
C15_Witness ==
    /\ PastWindow
    /\ EffectiveRisk = 3
    /\ current_mode = "HUMAN"
    /\ RecommendedMode = "AUTONOMOUS"
    /\ bn_recommendation.human_reliability = 60
    /\ Result.action_type = "ask"
    /\ Result.urgency = "medium"
    /\ Result.reasons.fatigue_warning = FALSE

\* C16: the ladder into Shared. With no override, 120 s or more elapsed,
\* recommended_mode = Shared, current_mode /= Shared and no hard safety
\* rule firing, the decision is: at Critical Ask with target Shared,
\* allow_decline = true and timeout 30; at High Suggest Shared with
\* allow_decline = true and timeout 30; at Medium Suggest Shared with no
\* timeout; at Low Suggest Shared; at Safe None with target current_mode.
C16_AnyToSharedLadder ==
    (/\ PastWindow
     /\ RecommendedMode = "SHARED"
     /\ current_mode /= "SHARED"
     /\ ~RuleAHolds
     /\ ~RuleBHolds) =>
        /\ (EffectiveRisk = 4) =>
              /\ Result.action_type = "ask"
              /\ Result.target_mode = "SHARED"
              /\ Result.allow_decline = TRUE
              /\ Result.timeout_seconds = Some(30)
        /\ (EffectiveRisk = 3) =>
              /\ Result.action_type = "suggest"
              /\ Result.target_mode = "SHARED"
              /\ Result.allow_decline = TRUE
              /\ Result.timeout_seconds = Some(30)
        /\ (EffectiveRisk = 2) =>
              /\ Result.action_type = "suggest"
              /\ Result.target_mode = "SHARED"
              /\ Result.timeout_seconds = None
        /\ (EffectiveRisk = 1) =>
              /\ Result.action_type = "suggest"
              /\ Result.target_mode = "SHARED"
        /\ (EffectiveRisk = 0) =>
              /\ Result.action_type = "none"
              /\ Result.target_mode = current_mode

\* C16 witness: at Critical risk, from Autonomous, the operator was asked
\* to accept Shared with 30 s to answer.
C16_Witness ==
    /\ PastWindow
    /\ RecommendedMode = "SHARED"
    /\ current_mode = "AUTONOMOUS"
    /\ EffectiveRisk = 4
    /\ Result.action_type = "ask"
    /\ Result.target_mode = "SHARED"
    /\ Result.allow_decline = TRUE
    /\ Result.timeout_seconds = Some(30)

\* C17: transitions out of Shared. With no override, 120 s or more
\* elapsed, current_mode = Shared and recommended_mode Human or Autonomous,
\* the decision is None with target Shared at Critical, High and Medium;
\* Suggest with target = recommended_mode at Low; and at Safe AutoSwitch to
\* Autonomous when recommended_mode = Autonomous, otherwise None with
\* target Shared.
C17_OutOfSharedLadder ==
    (/\ PastWindow
     /\ current_mode = "SHARED"
     /\ RecommendedMode \in {"HUMAN", "AUTONOMOUS"}) =>
        /\ (EffectiveRisk \in {2, 3, 4}) =>
              /\ Result.action_type = "none"
              /\ Result.target_mode = "SHARED"
        /\ (EffectiveRisk = 1) =>
              /\ Result.action_type = "suggest"
              /\ Result.target_mode = RecommendedMode
        /\ (EffectiveRisk = 0 /\ RecommendedMode = "AUTONOMOUS") =>
              /\ Result.action_type = "auto_switch"
              /\ Result.target_mode = "AUTONOMOUS"
        /\ (EffectiveRisk = 0 /\ RecommendedMode = "HUMAN") =>
              /\ Result.action_type = "none"
              /\ Result.target_mode = "SHARED"

\* C17 witness: in a Safe phase the engine switched from Shared to
\* Autonomous on the recommendation.
C17_Witness ==
    /\ PastWindow
    /\ current_mode = "SHARED"
    /\ RecommendedMode = "AUTONOMOUS"
    /\ EffectiveRisk = 0
    /\ Result.action_type = "auto_switch"
    /\ Result.target_mode = "AUTONOMOUS"

\* C18: with no override and no hard safety rule firing, a recommendation
\* of the mode already active is answered by None with target_mode =
\* current_mode, in every phase and criticality, for all reliabilities and
\* for every elapsed time, inside the 120 s window and after it.
C18_NoChangeRecommendedIsStable ==
    (/\ Returned
     /\ NoOverride
     /\ RecommendedMode = current_mode
     /\ ~RuleAHolds
     /\ ~RuleBHolds) =>
        /\ Result.action_type = "none"
        /\ Result.target_mode = current_mode

\* C18 witness: Shared recommended while Shared is active, at Critical
\* risk after the window, where a recommendation of Shared is otherwise
\* put to the operator.
C18_Witness ==
    /\ PastWindow
    /\ RecommendedMode = "SHARED"
    /\ current_mode = "SHARED"
    /\ EffectiveRisk = 4
    /\ Result.action_type = "none"
    /\ Result.target_mode = "SHARED"
    /\ "no_change_needed" \in DOMAIN Result.reasons

\* the fields of a decision that the specification compares
SameDecision(d, e) ==
    /\ d.action_type = e.action_type
    /\ d.target_mode = e.target_mode
    /\ d.urgency = e.urgency
    /\ d.allow_decline = e.allow_decline
    /\ d.timeout_seconds = e.timeout_seconds
    /\ d.reasons = e.reasons

\* C19: determinism. Two calls of evaluate with the same arguments on an
\* engine of the same configuration return the same decision (action_type,
\* target_mode, urgency, allow_decline, timeout and reasons), however many
\* and whichever calls were made before; the calls leave the engine's
\* configuration as it was constructed.
C19_SameArgumentsSameDecision ==
    /\ \A i, j \in 1..Len(calls) :
          (calls[i].arguments = calls[j].arguments) =>
              SameDecision(calls[i].decision, calls[j].decision)
    /\ rule_engine.minimum_mode_duration = Seconds(120)
    /\ rule_engine.mode_change_history = <<>>

\* C19 witness: a call held by the hysteresis, then a call with other
\* arguments that switched to Human, then the first call again with the
\* same answer.
C19_Witness ==
    /\ Len(calls) = 3
    /\ calls[1].arguments = calls[3].arguments
    /\ calls[2].arguments /= calls[1].arguments
    /\ calls[1].arguments.time_since_last_change < Seconds(120)
    /\ "hysteresis" \in DOMAIN calls[1].decision.reasons
    /\ calls[2].decision.action_type = "auto_switch"
    /\ "hysteresis" \in DOMAIN calls[3].decision.reasons
    /\ SameDecision(calls[1].decision, calls[3].decision)

\* C20: totality. For every current mode, recommended mode, phase and
\* criticality (in the tables or not), reliabilities in [0, 1], elapsed
\* time >= 0 and optional override, evaluate returns exactly one decision,
\* with all its fields, action_type one of the six action types,
\* target_mode one of the three modes and urgency one of low, medium, high
\* and critical; no input is left without a result.
C20_EveryCallReturnsADecision ==
    Returned =>
        /\ Len(decision) = 1
        /\ DOMAIN Result =
               {"action_type", "target_mode", "message", "explanation",
                "urgency", "allow_decline", "timeout_seconds", "reasons"}
        /\ Result.action_type \in
               {"auto_switch", "ask", "suggest", "notify", "block", "none"}
        /\ Result.target_mode \in {"AUTONOMOUS", "HUMAN", "SHARED"}
        /\ Result.urgency \in {"low", "medium", "high", "critical"}
        /\ Result.allow_decline \in BOOLEAN
        /\ Result.timeout_seconds \in {None, Some(30), Some(45), Some(60)}

\* C20 witness: a call with a phase and a criticality outside the tables
\* and both reliabilities at 0 returned a decision, by Rule B.
C20_Witness ==
    /\ Returned
    /\ mission_phase \notin SpecPhases
    /\ task_criticality \notin SpecCriticalities
    /\ bn_recommendation.human_reliability = 0
    /\ bn_recommendation.autonomous_reliability = 0
    /\ NoOverride
    /\ current_mode = "AUTONOMOUS"
    /\ RecommendedMode = "HUMAN"
    /\ Result.action_type = "auto_switch"
    /\ Result.target_mode = "HUMAN"
    /\ Result.urgency = "high"

\* C21: evaluate leaves the engine as it was constructed: the thresholds
\* 0.5, 0.6 and 0.8, minimum_mode_duration 120 s, an empty
\* mode_change_history and no last_mode_change_time, after any sequence of
\* calls.
C21_EngineUnchangedByCalls ==
    /\ rule_engine.CRITICAL_LOW_THRESHOLD = 50
    /\ rule_engine.LOW_THRESHOLD = 60
    /\ rule_engine.HIGH_THRESHOLD = 80
    /\ rule_engine.minimum_mode_duration = 120 * Resolution
    /\ rule_engine.mode_change_history = <<>>
    /\ rule_engine.last_mode_change_time = None
    /\ DOMAIN rule_engine =
           {"CRITICAL_LOW_THRESHOLD", "LOW_THRESHOLD", "HIGH_THRESHOLD",
            "minimum_mode_duration", "mode_change_history",
            "last_mode_change_time"}

\* C21 witness: three calls were made, one of them switching to Human and
\* one blocking the hand-over to Autonomous, and the engine is as built.
C21_Witness ==
    /\ Len(calls) = 3
    /\ \E i \in 1..3 : /\ calls[i].decision.action_type = "auto_switch"
                       /\ calls[i].decision.target_mode = "HUMAN"
    /\ \E i \in 1..3 : calls[i].decision.action_type = "block"
    /\ rule_engine = NewAuthorityRuleEngine

\* the explanation was put together by the explanation composer
ComposedExplanation == Contains(Result.explanation, "Performance Assessment:")

\* C28: every phase-rule decision for a transition from Autonomous to Human
\* (AutoSwitch at Critical and High, Ask at Medium, Notify at Low) carries
\* an explanation with the degradation-factor bullets of the diagnoser; and
\* every composed explanation for a recommendation with human_reliability
\* < 0.6 includes the block on the operator's state.
C28_ExplanationCarriesFactorsAndHumanState ==
    /\ (/\ PastWindow
        /\ current_mode = "AUTONOMOUS"
        /\ RecommendedMode = "HUMAN"
        /\ bn_recommendation.autonomous_reliability >= 60
        /\ EffectiveRisk \in 1..4) =>
           LET factors == _diagnose_autonomous_degradation(rule_engine,
                                                           bn_recommendation)
           IN  /\ Contains(Result.explanation, "Autonomous System Status:")
               /\ \A i \in 1..Len(factors) :
                      Contains(Result.explanation, "\n  * " \o factors[i])
    /\ (/\ Returned
        /\ ComposedExplanation
        /\ bn_recommendation.human_reliability < 60) =>
           Contains(Result.explanation, "Your Current State:")

\* the label the specification gives a reliability in whole percent
SpecReliabilityLabel(r) ==
    CASE r >= 80 -> "Excellent"
      [] r >= 70 /\ r < 80 -> "Good"
      [] r >= 60 /\ r < 70 -> "Fair"
      [] r >= 50 /\ r < 60 -> "Low"
      [] r < 50 -> "Critical"

\* the descriptor the specification gives a confidence in whole percent
SpecConfidenceDescriptor(c) ==
    CASE c > 80 -> "very confident"
      [] c > 60 /\ c <= 80 -> "confident"
      [] c <= 60 -> "moderately confident"

\* C29: the labels are step functions of the score. A reliability is
\* Excellent from 0.8, Good from 0.7, Fair from 0.6, Low from 0.5 and
\* Critical below; a confidence is very confident above 0.8, confident
\* above 0.6 up to 0.8 and moderately confident otherwise. A composed
\* explanation shows each score with its label.
C29_LabelsAreStepFunctions ==
    (Returned /\ ComposedExplanation) =>
        LET hr == bn_recommendation.human_reliability
            ar == bn_recommendation.autonomous_reliability
            c == bn_recommendation.confidence
        IN  /\ Contains(Result.explanation,
                   "Your reliability: " \o ToString(hr) \o "% ("
                       \o SpecReliabilityLabel(hr) \o ")\n")
            /\ Contains(Result.explanation,
                   "System reliability: " \o ToString(ar) \o "% ("
                       \o SpecReliabilityLabel(ar) \o ")\n")
            /\ Contains(Result.explanation,
                   "System is " \o SpecConfidenceDescriptor(c)
                       \o " in this recommendation (" \o ToString(c) \o "%).")

\* C29 witness: scores on the boundaries: the operator at 0.7 is Good, the
\* system at 0.8 Excellent, a confidence of 0.6 moderately confident.
C29_Witness ==
    /\ Returned
    /\ ComposedExplanation
    /\ bn_recommendation.human_reliability = 70
    /\ bn_recommendation.autonomous_reliability = 80
    /\ bn_recommendation.confidence = 60
    /\ Contains(Result.explanation, "Your reliability: 70% (Good)")
    /\ Contains(Result.explanation, "System reliability: 80% (Excellent)")
    /\ Contains(Result.explanation, "System is moderately confident in")

\* what the safety tier of the call answered: its action type, or "" when
\* no rule fired
SafetyTierAnswer ==
    LET tier == _apply_safety_rules(rule_engine, current_mode, RecommendedMode,
                                    EffectiveRisk, mission_phase,
                                    bn_recommendation)
    IN  IF IsNone(tier) THEN "" ELSE Val(tier).action_type

\* the answers of the two rules of the specification, checked A then B
\* and B then A
SpecSafetyTierAThenB ==
    IF RuleAHolds THEN "notify" ELSE IF RuleBHolds THEN "auto_switch" ELSE ""
SpecSafetyTierBThenA ==
    IF RuleBHolds THEN "auto_switch" ELSE IF RuleAHolds THEN "notify" ELSE ""

\* C30: Hard Safety Rules A and B exclude each other: no input satisfies
\* both trigger conditions, so the safety tier answers the same whichever
\* rule is checked first.
C30_SafetyRulesExcludeEachOther ==
    Returned =>
        /\ ~(RuleAHolds /\ RuleBHolds)
        /\ SafetyTierAnswer = SpecSafetyTierAThenB
        /\ SafetyTierAnswer = SpecSafetyTierBThenA

\* C30 witness: Critical risk and human_reliability below 0.5, as Rule A
\* wants, but the system is in control and degraded: Rule B alone fired.
C30_Witness ==
    /\ Returned
    /\ NoOverride
    /\ EffectiveRisk = 4
    /\ bn_recommendation.human_reliability < 50
    /\ RuleBHolds
    /\ ~RuleAHolds
    /\ SafetyTierAnswer = "auto_switch"
    /\ Result.action_type = "auto_switch"
    /\ Result.target_mode = "HUMAN"

(***************************************************************************)
(* The arbitrator node: what a step of it did                              *)
(***************************************************************************)
\* the decisions the node can be executing in the present state: the one an
\* arbitration cycle evaluates and the ones operator overrides are answered
\* with
CandidateDecisions ==
    (IF IsNone(node.latest_bn_recommendation) THEN {}
     ELSE {ArbitrationDecision(node, rule_engine)})
    \cup {OverrideDecision(node, rule_engine, mode_map[t]) : t \in DOMAIN mode_map}

\* the step executes the decision dec
Executes(dec) ==
    /\ dec \in CandidateDecisions
    /\ node' = _execute_decision(node, dec)

\* the step is the operator accepting the pending Ask decision
AcceptsPendingAsk ==
    /\ ~IsNone(node.pending_decision)
    /\ Val(node.pending_decision).action_type = ASK
    /\ node' = operator_decision_response_callback(node, TRUE)

ModeChanged == node'.current_mode /= node.current_mode

\* the last-mode-change timestamp is a later clock reading than before
TimestampReset == node'.last_mode_change_time > node.last_mode_change_time

\* C22: in the node a step changes current_mode or takes a new
\* last-mode-change timestamp only if it executes an AutoSwitch decision or
\* is the operator accepting the pending Ask decision; a step that executes
\* a Suggest, Notify, Block, None or Ask decision leaves current_mode as it
\* was.
C22_ModeChangesOnlyByAutoSwitchOrAcceptedAsk ==
    [][/\ (ModeChanged \/ TimestampReset)
            => \/ \E dec \in CandidateDecisions :
                      dec.action_type = AUTO_SWITCH /\ Executes(dec)
               \/ AcceptsPendingAsk
       /\ \A dec \in CandidateDecisions :
              (dec.action_type /= AUTO_SWITCH
               /\ node' = _execute_decision(node, dec))
                  => ~ModeChanged]_vars

\* an Ask was issued and accepted: the mode changed to its target and the
\* last decision logged is still the request
C22_Witness ==
    /\ IsNone(node.pending_decision)
    /\ node.decision_log = <<[decision_type |-> "asked_operator"]>>
    /\ Len(node.mode_change_log) = 1
    /\ node.mode_change_log[1].old_mode /= node.mode_change_log[1].new_mode
    /\ node.current_mode = node.mode_change_log[1].new_mode
    /\ node.last_mode_change_time = Now

PendingAsk ==
    /\ ~IsNone(node.pending_decision)
    /\ Val(node.pending_decision).action_type = ASK
    /\ ~IsNone(Val(node.pending_decision).timeout_seconds)

TimedOut ==
    /\ IsNone(node.pending_decision)
    /\ node.decision_log = <<[decision_type |-> "timeout"]>>

\* C23: when the node has issued an Ask decision with a timeout and the
\* operator stays silent, the pending decision is eventually cleared by the
\* timeout check and a timeout outcome is logged, also while the arbitration
\* loop keeps running with unchanged inputs.
C23_PendingAskEventuallyTimesOut == PendingAsk ~> TimedOut

\* the pending decision's timeout has run out at the present clock reading
Expired ==
    /\ ~IsNone(node.pending_decision)
    /\ ~IsNone(node.decision_request_time)
    /\ ~IsNone(Val(node.pending_decision).timeout_seconds)
    /\ Elapsed(Now, Val(node.decision_request_time))
           > Seconds(Val(Val(node.pending_decision).timeout_seconds))

\* after is before with the pending decision and its request time cleared,
\* the mode and the last-mode-change timestamp as they were
OnlyCleared(before, after) ==
    /\ IsNone(after.pending_decision)
    /\ IsNone(after.decision_request_time)
    /\ after.current_mode = before.current_mode
    /\ after.last_mode_change_time = before.last_mode_change_time

\* C24: wherever the node is, a decline of the pending decision and a
\* timeout of it clear the pending decision and its request time and leave
\* current_mode and the last-mode-change timestamp as they were; and an
\* operator response, accepting or declining, that arrives while no decision
\* is pending leaves the whole node as it was.
C24_DeclineAndTimeoutOnlyClearPending ==
    /\ ~IsNone(node.pending_decision)
           => OnlyCleared(node, operator_decision_response_callback(node, FALSE))
    /\ Expired => OnlyCleared(node, check_pending_decisions(node))
    /\ IsNone(node.pending_decision)
           => \A accepted \in BOOLEAN :
                  operator_decision_response_callback(node, accepted) = node

\* a pending decision has just timed out
C24_Witness ==
    /\ IsNone(node.pending_decision)
    /\ IsNone(node.decision_request_time)
    /\ node.decision_log = <<[decision_type |-> "timeout"]>>

\* the deadline of the pending decision: its request time plus its timeout
Deadline ==
    Val(node.decision_request_time)
        + Seconds(Val(Val(node.pending_decision).timeout_seconds))

\* the timeout check keeps the pending decision before its deadline and
\* clears it after
DeadlineKept ==
    /\ Now < Deadline => check_pending_decisions(node) = node
    /\ Now > Deadline => IsNone(check_pending_decisions(node).pending_decision)

\* one pending decision at most, held with its request time; it is an Ask
PendingIsOneAsk ==
    /\ Len(node.pending_decision) <= 1
    /\ IsNone(node.pending_decision) <=> IsNone(node.decision_request_time)
    /\ ~IsNone(node.pending_decision)
           => /\ Val(node.pending_decision).action_type = ASK
              /\ ~IsNone(Val(node.pending_decision).timeout_seconds)
                     => DeadlineKept

\* a step that issues an Ask makes it the pending decision, requested now;
\* and a step after which another decision is pending issued that decision
NewestAskIsPending ==
    /\ \A dec \in CandidateDecisions :
           (dec.action_type = ASK /\ node' = _execute_decision(node, dec))
               => /\ node'.pending_decision = Some(dec)
                  /\ node'.decision_request_time = Some(Now)
    /\ (node'.pending_decision /= node.pending_decision
        /\ ~IsNone(node'.pending_decision))
           => \E dec \in CandidateDecisions :
                  /\ dec.action_type = ASK
                  /\ Executes(dec)
                  /\ node'.pending_decision = Some(dec)

\* C25: the node holds at most one pending decision, together with its
\* request time; the pending decision is always an Ask and always the Ask
\* issued last: issuing an Ask replaces whatever was pending and takes the
\* present as request time; and the timeout check treats the request time
\* plus the decision's timeout as the deadline.
C25_OnePendingAskTheNewest ==
    /\ []PendingIsOneAsk
    /\ [][NewestAskIsPending]_vars

\* an Ask requested earlier is pending and the node is about to issue an
\* Ask that differs from it
C25_Witness ==
    /\ ~IsNone(node.pending_decision)
    /\ Val(node.decision_request_time) < Now
    /\ ~IsNone(node.latest_bn_recommendation)
    /\ LET dec == ArbitrationDecision(node, rule_engine)
       IN  dec.action_type = ASK /\ dec /= Val(node.pending_decision)

\* the step is the handling of an operator override
HandlesOverride ==
    \E data \in OverrideTokens :
        node' = operator_override_callback(node, rule_engine, data)

\* C26: as long as the node has received no recommendation, an arbitration
\* cycle leaves the node as it is (current_mode, the pending decision and
\* both logs included), no decision is pending, and a step that changes
\* current_mode is the handling of an operator override.
C26_NoArbitrationBeforeFirstRecommendation ==
    /\ [](IsNone(node.latest_bn_recommendation)
              => /\ arbitration_loop(node, rule_engine) = node
                 /\ IsNone(node.pending_decision))
    /\ [][(IsNone(node.latest_bn_recommendation) /\ ModeChanged)
              => HandlesOverride]_vars

\* no recommendation was received yet and an operator override has changed
\* the mode
C26_Witness ==
    /\ IsNone(node.latest_bn_recommendation)
    /\ node.current_mode = AUTONOMOUS
    /\ node.mode_change_log = <<[old_mode |-> HUMAN, new_mode |-> AUTONOMOUS]>>
    /\ node.decision_log = <<[decision_type |-> "auto_switch"]>>

\* the tokens of the three modes; a token is recognized whatever its case
SpecTokens == {"autonomous", "human", "shared"}
Unrecognized(data) == lower(data) \notin SpecTokens

\* C27: a recommendation token that is not one of the three mode tokens
\* sets the latest recommendation to Shared and changes nothing else, so
\* that the latest recommendation is always a control mode; an override
\* token that is not one of the three is rejected: the node stays as it is,
\* current_mode, the pending decision, the last-mode-change timestamp and
\* the logs included.
C27_UnrecognizedTokensDefaultOrRejected ==
    /\ \A data \in RecommendationTokens :
           LET received == bn_recommendation_callback(node, data)
           IN  /\ Val(received.latest_bn_recommendation) \in ControlMode
               /\ Unrecognized(data)
                      => received =
                             [node EXCEPT !.latest_bn_recommendation = Some(SHARED)]
    /\ \A data \in OverrideTokens :
           Unrecognized(data)
               => operator_override_callback(node, rule_engine, data) = node

\* an unrecognized recommendation token was received: Shared is recommended
C27_Witness ==
    /\ node.latest_bn_recommendation = Some(SHARED)
    /\ \E data \in RecommendationTokens : Unrecognized(data)
    /\ \E data \in OverrideTokens : Unrecognized(data)

\* C31: a decision whose action_type is None, Notify or Block names the
\* current mode as its target, and a decision whose target differs from the
\* current mode is an AutoSwitch, an Ask or a Suggest; the low-risk handler
\* called with a recommendation other than the current mode never answers
\* None.
C31_TargetDiffersOnlyInTransitions ==
    Returned =>
        /\ Result.action_type \in {NONE, NOTIFY, BLOCK}
               => Result.target_mode = current_mode
        /\ Result.target_mode /= current_mode
               => Result.action_type \in {AUTO_SWITCH, ASK, SUGGEST}
        /\ bn_recommendation.recommended_mode /= current_mode
               => _handle_low_risk_phase(rule_engine, current_mode,
                      bn_recommendation.recommended_mode, mission_phase,
                      bn_recommendation).action_type /= NONE

\* C31 witness: the low-risk fallback, Human recommended while Shared is
\* active, returns Suggest with the recommended mode as target.
C31_Witness ==
    /\ Returned
    /\ NoOverride
    /\ EffectiveRisk = 1
    /\ current_mode = SHARED
    /\ RecommendedMode = HUMAN
    /\ Result.action_type = SUGGEST
    /\ Result.target_mode = HUMAN
    /\ Result.message = "Consider HUMAN mode?"

\* the timeouts an Ask decision carries, in seconds
SpecAskTimeouts == {30, 45, 60}

\* C32: in every decision evaluate returns, allow_decline is true exactly
\* when the action type is Ask or Suggest; an Ask carries a timeout of 30,
\* 45 or 60 seconds; an AutoSwitch, Notify, Block or None decision carries
\* no timeout.
C32_DeclinableAndTimeoutsByActionType ==
    Returned =>
        /\ Result.allow_decline <=> Result.action_type \in {ASK, SUGGEST}
        /\ Result.action_type = ASK
               => /\ ~IsNone(Result.timeout_seconds)
                  /\ Val(Result.timeout_seconds) \in SpecAskTimeouts
        /\ Result.action_type \in {AUTO_SWITCH, NOTIFY, BLOCK, NONE}
               => IsNone(Result.timeout_seconds)

\* C32 witness: the medium-risk Ask toward Human, declinable, with its
\* timeout of 60 seconds.
C32_Witness ==
    /\ Returned
    /\ NoOverride
    /\ EffectiveRisk = 2
    /\ Result.action_type = ASK
    /\ Result.target_mode = HUMAN
    /\ Result.allow_decline
    /\ Result.timeout_seconds = Some(60)

\* the effective risk level of the node's current phase and criticality
NodeRisk == get_risk_level(node.current_phase, node.current_task_criticality)

\* the node after each event that can commit a mode change at the present
\* state: an operator override, an operator response, an arbitration cycle
CommitOutcomes ==
    {operator_override_callback(node, rule_engine, data) : data \in OverrideTokens}
    \cup {operator_decision_response_callback(node, accepted) :
              accepted \in BOOLEAN}
    \cup {arbitration_loop(node, rule_engine)}

\* C33: wherever a sequence of events has brought the node, if the
\* effective risk level of its current phase and criticality is Critical
\* and the mode is Human or Shared, then no event handled next commits a
\* change into Autonomous.
C33_NoCommitIntoAutonomousAtCriticalRisk ==
    (NodeRisk = 4 /\ node.current_mode /= AUTONOMOUS)
        => \A after \in CommitOutcomes : after.current_mode /= AUTONOMOUS

\* the mode that was active when the engine issued the Ask decision dec: an
\* Ask toward Shared records it in reasons.transition; an Ask toward
\* Autonomous is issued in Human only, an Ask toward Human in Autonomous only
IssuedInMode(dec) ==
    IF "transition" \in DOMAIN dec.reasons
    THEN CHOOSE mode \in ControlMode :
             mode \o "_to_shared" = dec.reasons.transition
    ELSE IF dec.target_mode = AUTONOMOUS THEN HUMAN ELSE AUTONOMOUS

\* the phase the Ask decision dec was issued in
IssuedInPhase(dec) == dec.reasons.phase

\* C34: a pending Ask decision, which the operator may accept at any
\* moment, is pending only in the situation it was issued for: the node's
\* current mode and phase are those of the moment the Ask was issued (a
\* mode change or phase change in between has discarded it).
C34_PendingOnlyInIssuedSituation ==
    ~IsNone(node.pending_decision)
        => /\ IssuedInMode(Val(node.pending_decision)) = node.current_mode
           /\ IssuedInPhase(Val(node.pending_decision)) = node.current_phase

\* C35: every mode-change event the node commits (a mode-change log entry,
\* written together with a fresh last-mode-change timestamp) has
\* old_mode /= new_mode.
C35_CommittedChangesChangeTheMode ==
    \A i \in 1..Len(node.mode_change_log) :
        node.mode_change_log[i].old_mode /= node.mode_change_log[i].new_mode

\* the step is an arbitration cycle in which Hard Safety Rule B switches
\* from Autonomous to Human
RuleBSwitches ==
    /\ ~IsNone(node.latest_bn_recommendation)
    /\ node.current_mode = AUTONOMOUS
    /\ Val(node.latest_bn_recommendation) = HUMAN
    /\ node.autonomous_reliability < rule_engine.LOW_THRESHOLD
    /\ node' = arbitration_loop(node, rule_engine)

\* the time since the last committed mode change, in ticks
SinceLastChange == Elapsed(Now, node.last_mode_change_time)

\* C36: a step of the node that changes the mode and is neither the
\* handling of an operator override nor a Rule B switch happens at least
\* 120 seconds after the previous committed mode change.
C36_MinimumDwellTime ==
    [][(ModeChanged /\ ~HandlesOverride /\ ~RuleBSwitches)
           => SinceLastChange >= Seconds(120)]_vars

====
